---- MODULE Spec2Model ----
(***************************************************************************)
(* Capture-compare-stitch engine of the scroll-capture tool.               *)
(*                                                                         *)
(*   src/src/lib.rs   ScreenCapture: images_are_identical,                 *)
(*                    images_are_similar, stitch_images,                   *)
(*                    capture_with_scroll                                  *)
(*   src/src/gui.rs   CaptureApp: start_capture, stop_capture, run_capture *)
(*                                                                         *)
(* Three specifications share the variables below:                         *)
(*   SpecCmp     the two frame comparators applied to bounded raster pairs *)
(*   SpecStitch  the stitcher applied to bounded frame lists               *)
(*   Spec        one capture session: the library's screenshot loop, or    *)
(*               the GUI worker (countdown, loop with stop flag, save)     *)
(*               running beside the UI thread                              *)
(***************************************************************************)
EXTENDS Integers, Sequences, FiniteSets, TLC

VARIABLES
    \* ---- harness of the pure functions (SpecCmp, SpecStitch)
    build,            \* "debug" | "release": cargo profile (overflow checks on/off)
    op,               \* function applied so far: "none" | "identical" | "similar" | "stitch"
    arg,              \* its argument when that is not a list of rasters
    arg_images,       \* the rasters passed to it
    arg_overlap,      \* the overlap / overlap_height argument
    ret,              \* what it returned
    \* ---- one capture session (Spec)
    mode,             \* "lib": capture_with_scroll called directly; "gui": CaptureApp
    pc,               \* position of the session's thread
    max_scrolls,      \* Option<usize>: NoLimit or Some(n)
    overlap,          \* overlap argument of the session
    images,           \* Vec<RgbaImage> accumulated by the loop
    previous_capture, \* lib.rs:774
    current_capture,  \* lib.rs:803
    scroll_count,     \* lib.rs:775
    outcome,          \* what the session returned to its caller
    scrolls_issued,   \* number of scroll_down calls so far
    captures_done,    \* number of capture_screen calls so far
    observed,         \* stop request the loop has observed: "none" | "key" | "flag"
    should_stop,      \* gui.rs:94  Arc<Mutex<bool>>
    is_running,       \* gui.rs:93  Arc<Mutex<bool>>
    status,           \* gui.rs:92  Arc<Mutex<CaptureStatus>> (its constructor)
    remaining,        \* seconds of countdown left in run_capture, gui.rs:282-301
    saved,            \* TRUE once result_image.save has written the output file
    run_result,       \* what run_capture returned to the worker closure
    stop_at,          \* position of the worker when stop_capture ran, "never" if it did not
    \* ---- the video path of a session (Spec, mode = "video")
    duration,         \* lib.rs:497  recording time in seconds, u64
    user_stopped,     \* lib.rs:608
    ffmpeg_process,   \* lib.rs:588  what has been done to the recorder process, in order
    frame_paths,      \* lib.rs:666  the extracted frames, in the order of their sorted paths
    next_frame,       \* lib.rs:681  index i of the loading loop
    \* ---- the threads of the GUI over several sessions (SpecApp)
    ui_frame,         \* gui.rs:422  is_running as read by the frame being rendered
    workers,          \* gui.rs:243  the threads spawned by start_capture, in order
    stop_calls        \* gui.rs:263  history: the sessions during which stop_capture was called

fnVars   == <<build, op, arg, arg_images, arg_overlap, ret>>
loopVars == <<mode, pc, max_scrolls, overlap, images, previous_capture, current_capture,
              scroll_count, outcome, scrolls_issued, captures_done, observed>>
guiVars  == <<should_stop, is_running, status, remaining, saved, run_result, stop_at>>
videoVars == <<duration, user_stopped, ffmpeg_process, frame_paths, next_frame>>
appVars  == <<ui_frame, workers, stop_calls>>
vars     == <<fnVars, loopVars, guiVars, videoVars, appVars>>

(***************************************************************************)
(* Bounds of the model                                                     *)
(***************************************************************************)
MaxH == 3
    \* tallest raster given to the comparators
MaxStitchH == 4
    \* tallest frame given to the stitcher
MaxFrames == 3
    \* longest frame list given to the stitcher
MaxScrollLimit == 2
    \* largest configured max_scrolls
MaxIter == 3
    \* cap on scroll_count when max_scrolls is None
MaxDelay == 2
    \* longest GUI countdown, seconds
MaxFields == 5
    \* most pieces of a crop string given to parse_crop_region
MaxScreen == 2
    \* widest and tallest display given to capture_screen
MaxStarts == 3
    \* most capture sessions started in one run of the GUI

Widths == {1, 2}
Pixels == {1, 2}
    \* two Rgba<u8> values; the comparators only test pixels for equality
Blank == 0
    \* the zeroed pixel Rgba([0, 0, 0, 0]) that ImageBuffer::new fills a raster with
NoneVal == "None"
    \* a variable that holds nothing yet
NoResult == [kind |-> "None"]
    \* no Result returned yet
\* Option<usize>
NoLimit == <<>>
Some(n) == <<n>>

(***************************************************************************)
(* Rasters (image::RgbaImage): width, height and a pixel per position      *)
(***************************************************************************)
RastersOf(w, h) ==
    [width : {w}, height : {h}, px : [(0 .. w - 1) \X (0 .. h - 1) -> Pixels]]

Rasters == UNION {RastersOf(w, h) : w \in Widths, h \in 1 .. MaxH}

InBounds(img, x, y) == x >= 0 /\ x < img.width /\ y >= 0 /\ y < img.height

\* ImageBuffer::get_pixel panics outside the raster; callers test InBounds first
get_pixel(img, x, y) == img.px[<<x, y>>]

(***************************************************************************)
(* f32 percentages are kept as exact fractions num/den; den = 0 is the     *)
(* NaN that 0.0 / 0.0 gives                                                *)
(***************************************************************************)
Frac(n, d) == [num |-> n, den |-> d]
Hundred == Frac(100, 1)

(***************************************************************************)
(* ScreenCapture::images_are_identical, lib.rs:367-401                     *)
(* k walks the nested loops  for y in 0..height { for x in 0..width }      *)
(* in row-major order; reads counts the pixel pairs fetched.               *)
(***************************************************************************)
RECURSIVE IdenticalScan(_, _, _, _, _)
IdenticalScan(img1, img2, k, diff_count, reads) ==
    LET width == img1.width
        height == img1.height
    IN  IF k >= width * height
        THEN [identical |-> TRUE, reads |-> reads, panic |-> FALSE]
        ELSE LET x == k % width
                 y == k \div width
             IN  IF ~InBounds(img1, x, y) \/ ~InBounds(img2, x, y)
                 THEN [identical |-> FALSE, reads |-> reads, panic |-> TRUE]
                 ELSE IF get_pixel(img1, x, y) # get_pixel(img2, x, y)
                      THEN IF diff_count + 1 > 0
                           THEN [identical |-> FALSE, reads |-> reads + 1, panic |-> FALSE]
                           ELSE IdenticalScan(img1, img2, k + 1, diff_count + 1, reads + 1)
                      ELSE IdenticalScan(img1, img2, k + 1, diff_count, reads + 1)

\* positions at which two rasters of equal dimensions hold different pixels
DiffPositions(a, b) == {p \in DOMAIN a.px : a.px[p] # b.px[p]}

SameDims(a, b) == a.width = b.width /\ a.height = b.height

\* mutation: the early exit tests  diff_count > 1  instead of  diff_count > 0
images_are_identical_tolerant(img1, img2) ==
    IF img1.width # img2.width \/ img1.height # img2.height
    THEN [identical |-> FALSE, reads |-> 0, panic |-> FALSE]
    ELSE [identical |-> Cardinality(DiffPositions(img1, img2)) <= 1,
          reads |-> img1.width * img1.height, panic |-> FALSE]

images_are_identical(img1, img2) ==
    IF img1.width # img2.width \/ img1.height # img2.height
    THEN [identical |-> FALSE, reads |-> 0, panic |-> FALSE]
    ELSE IdenticalScan(img1, img2, 0, 0, 0)

(***************************************************************************)
(* ScreenCapture::images_are_similar, lib.rs:403-453                       *)
(***************************************************************************)
ThresholdPercent == 0
    \* the fraction in  (total_pixels as f32 * 0.00) as usize, in percent

Threshold(total_pixels) == (total_pixels * ThresholdPercent) \div 100

RECURSIVE SimilarScan(_, _, _, _, _, _)
SimilarScan(img1, img2, overlap_height, k, diff_count, reads) ==
    LET width == img1.width
        height == img1.height
        start_y1 == height - overlap_height
        total_pixels == overlap_height * width
        threshold == Threshold(total_pixels)
    IN  IF k >= total_pixels
        THEN [similar |-> TRUE, pct |-> Frac(diff_count * 100, total_pixels),
              diff_count |-> diff_count, reads |-> reads, panic |-> FALSE]
        ELSE LET x == k % width
                 y == k \div width
             IN  IF ~InBounds(img1, x, start_y1 + y) \/ ~InBounds(img2, x, y)
                 THEN [similar |-> FALSE, pct |-> Hundred, diff_count |-> diff_count,
                       reads |-> reads, panic |-> TRUE]
                 ELSE IF get_pixel(img1, x, start_y1 + y) # get_pixel(img2, x, y)
                      THEN IF diff_count + 1 > threshold
                           THEN [similar |-> FALSE,
                                 pct |-> Frac((diff_count + 1) * 100, total_pixels),
                                 diff_count |-> diff_count + 1, reads |-> reads + 1,
                                 panic |-> FALSE]
                           ELSE SimilarScan(img1, img2, overlap_height, k + 1,
                                            diff_count + 1, reads + 1)
                      ELSE SimilarScan(img1, img2, overlap_height, k + 1,
                                       diff_count, reads + 1)

\* linear indices k (row-major over the band) at which the bottom
\* overlap_height rows of a and the top overlap_height rows of b differ
BandMismatches(a, b, overlap_height) ==
    {k \in 0 .. overlap_height * a.width - 1 :
        a.px[<<k % a.width, a.height - overlap_height + k \div a.width>>]
            # b.px[<<k % a.width, k \div a.width>>]}

\* mutation: an empty band is reported as not similar
images_are_similar_emptyband(img1, img2, overlap_height) ==
    IF img1.width # img2.width \/ img1.height # img2.height
    THEN [similar |-> FALSE, pct |-> Hundred, diff_count |-> 0, reads |-> 0,
          panic |-> FALSE]
    ELSE IF overlap_height >= img1.height \/ overlap_height = 0
         THEN [similar |-> FALSE, pct |-> Hundred, diff_count |-> 0, reads |-> 0,
               panic |-> FALSE]
         ELSE SimilarScan(img1, img2, overlap_height, 0, 0, 0)

\* mutation: only the widths are compared before scanning
images_are_similar_widthonly(img1, img2, overlap_height) ==
    IF img1.width # img2.width
    THEN [similar |-> FALSE, pct |-> Hundred, diff_count |-> 0, reads |-> 0,
          panic |-> FALSE]
    ELSE IF overlap_height >= img1.height
         THEN [similar |-> FALSE, pct |-> Hundred, diff_count |-> 0, reads |-> 0,
               panic |-> FALSE]
         ELSE SimilarScan(img1, img2, overlap_height, 0, 0, 0)

\* mutation: the overlap guard is  overlap_height > height
images_are_similar_gt(img1, img2, overlap_height) ==
    IF img1.width # img2.width \/ img1.height # img2.height
    THEN [similar |-> FALSE, pct |-> Hundred, diff_count |-> 0, reads |-> 0,
          panic |-> FALSE]
    ELSE IF overlap_height > img1.height
         THEN [similar |-> FALSE, pct |-> Hundred, diff_count |-> 0, reads |-> 0,
               panic |-> FALSE]
         ELSE SimilarScan(img1, img2, overlap_height, 0, 0, 0)

\* mutation: the two rasters are taken in the wrong order (top band of img1
\* against bottom band of img2)
images_are_similar_swapped(img1, img2, overlap_height) ==
    IF img1.width # img2.width \/ img1.height # img2.height
    THEN [similar |-> FALSE, pct |-> Hundred, diff_count |-> 0, reads |-> 0,
          panic |-> FALSE]
    ELSE IF overlap_height >= img1.height
         THEN [similar |-> FALSE, pct |-> Hundred, diff_count |-> 0, reads |-> 0,
               panic |-> FALSE]
         ELSE SimilarScan(img2, img1, overlap_height, 0, 0, 0)

\* mutation: no early exit, the whole band is scanned before the count is
\* compared with the threshold
images_are_similar_fullscan(img1, img2, overlap_height) ==
    IF img1.width # img2.width \/ img1.height # img2.height
    THEN [similar |-> FALSE, pct |-> Hundred, diff_count |-> 0, reads |-> 0,
          panic |-> FALSE]
    ELSE IF overlap_height >= img1.height
         THEN [similar |-> FALSE, pct |-> Hundred, diff_count |-> 0, reads |-> 0,
               panic |-> FALSE]
         ELSE LET n == Cardinality(BandMismatches(img1, img2, overlap_height))
                  total_pixels == overlap_height * img1.width
              IN  [similar |-> n <= Threshold(total_pixels),
                   pct |-> Frac(n * 100, total_pixels), diff_count |-> n,
                   reads |-> total_pixels, panic |-> FALSE]

images_are_similar(img1, img2, overlap_height) ==
    IF img1.width # img2.width \/ img1.height # img2.height
    THEN [similar |-> FALSE, pct |-> Hundred, diff_count |-> 0, reads |-> 0,
          panic |-> FALSE]
    ELSE IF overlap_height >= img1.height
         THEN [similar |-> FALSE, pct |-> Hundred, diff_count |-> 0, reads |-> 0,
               panic |-> FALSE]
         ELSE SimilarScan(img1, img2, overlap_height, 0, 0, 0)

(***************************************************************************)
(* ScreenCapture::stitch_images, lib.rs:455-492                            *)
(*                                                                         *)
(* u32 arithmetic: width, heights and overlap are u32.  single_height -    *)
(* overlap overflows when overlap > single_height: the debug profile       *)
(* panics there, the release profile wraps.  A wrapped value 2^32 + v      *)
(* (v < 0, |v| small) is kept as the negative integer v, so sums and       *)
(* products of wrapped values stay exact modulo 2^32.                      *)
(***************************************************************************)
U32Lt(a, b) ==
    IF (a < 0) = (b < 0) THEN a < b ELSE b < 0

BlankRaster(w, h) ==
    [width |-> w, height |-> h, px |-> [p \in (0 .. w - 1) \X (0 .. h - 1) |-> Blank]]

StitchPanic(why)  == [kind |-> "panic", why |-> why]
\* writes lists the rows put into the result, in order, as <<i, y, target_y>>
StitchImage(img, writes) == [kind |-> "image", image |-> img, writes |-> writes]

\* mutation: the skipped rows of a later frame reach one row past the band
RowWritten_skippastband(i, y, ovl) ==
    IF i > 0 /\ y <= ovl THEN FALSE ELSE TRUE

\* mutation: every row of the overlap band of a later frame is skipped
RowWritten_skipband(i, y, ovl) ==
    IF i > 0 /\ y < ovl THEN FALSE ELSE TRUE

\* lib.rs:473-485: is row y of frame i copied to the result?
RowWritten(i, y, ovl) ==
    IF i > 0 /\ y < ovl THEN y >= ovl \div 2 ELSE TRUE

\* lib.rs:466-489; k walks  for (i, img) { for y in 0..single_height }
RECURSIVE StitchLoop(_, _, _, _, _, _, _)
StitchLoop(imgs, ovl, step, total_height, k, result, writes) ==
    LET width == imgs[1].width
        single_height == imgs[1].height
    IN  IF k >= Len(imgs) * single_height
        THEN StitchImage(result, writes)
        ELSE LET i == k \div single_height
                 y == k % single_height
                 img == imgs[i + 1]
                 y_offset == i * step
                 target_y == y_offset + y
             IN  IF U32Lt(target_y, total_height) /\ RowWritten(i, y, ovl)
                 THEN IF ~InBounds(img, width - 1, y)
                      THEN StitchPanic("get_pixel out of bounds")
                      ELSE StitchLoop(imgs, ovl, step, total_height, k + 1,
                               [result EXCEPT !.px =
                                   [p \in DOMAIN @ |->
                                       IF p[2] = target_y
                                       THEN get_pixel(img, p[1], y)
                                       ELSE @[p]]],
                               Append(writes, <<i, y, target_y>>))
                 ELSE StitchLoop(imgs, ovl, step, total_height, k + 1, result,
                                 writes)

\* mutation: no test for the empty list; images[0] is indexed at once
stitch_images_noempty(imgs, ovl, bld) ==
    IF imgs = <<>>
    THEN StitchPanic("index out of bounds")
    ELSE LET step == imgs[1].height - ovl
             total_height == imgs[1].height + (Len(imgs) - 1) * step
         IN  IF step < 0 /\ bld = "debug"
             THEN StitchPanic("attempt to subtract with overflow")
             ELSE IF total_height < 0
                  THEN [kind |-> "oversize", width |-> imgs[1].width,
                        height |-> total_height]
                  ELSE StitchLoop(imgs, ovl, step, total_height, 0,
                                  BlankRaster(imgs[1].width, total_height), <<>>)

stitch_images(imgs, ovl, bld) ==
    IF imgs = <<>>
    THEN StitchImage(BlankRaster(1, 1), <<>>)
    ELSE LET width == imgs[1].width
             single_height == imgs[1].height
             step == single_height - ovl
             total_height == single_height + (Len(imgs) - 1) * step
         IN  IF step < 0 /\ bld = "debug"
             THEN StitchPanic("attempt to subtract with overflow")
             ELSE IF total_height < 0
                  \* release only: ImageBuffer::new(width, 2^32 + total_height)
                  \* either fails to allocate or yields a raster of that height
                  THEN [kind |-> "oversize", width |-> width, height |-> total_height]
                  ELSE StitchLoop(imgs, ovl, step, total_height, 0,
                                  BlankRaster(width, total_height), <<>>)

\* ---- the stitcher of the binary, main.rs:510-538
\* main.rs:525-531: is row y of frame i copied to the result?
cli_RowWritten(i, y, ovl) ==
    IF i > 0 /\ y < ovl THEN FALSE ELSE TRUE

\* main.rs:520-535
RECURSIVE cli_StitchLoop(_, _, _, _, _, _, _)
cli_StitchLoop(imgs, ovl, step, total_height, k, result, writes) ==
    LET width == imgs[1].width
        single_height == imgs[1].height
    IN  IF k >= Len(imgs) * single_height
        THEN StitchImage(result, writes)
        ELSE LET i == k \div single_height
                 y == k % single_height
                 img == imgs[i + 1]
                 y_offset == i * step
                 target_y == y_offset + y
             IN  IF U32Lt(target_y, total_height) /\ cli_RowWritten(i, y, ovl)
                 THEN IF ~InBounds(img, width - 1, y)
                      THEN StitchPanic("get_pixel out of bounds")
                      ELSE cli_StitchLoop(imgs, ovl, step, total_height, k + 1,
                               [result EXCEPT !.px =
                                   [p \in DOMAIN @ |->
                                       IF p[2] = target_y
                                       THEN get_pixel(img, p[1], y)
                                       ELSE @[p]]],
                               Append(writes, <<i, y, target_y>>))
                 ELSE cli_StitchLoop(imgs, ovl, step, total_height, k + 1, result,
                                     writes)

\* main.rs:510-538
cli_stitch_images(imgs, ovl, bld) ==
    IF imgs = <<>>
    THEN StitchImage(BlankRaster(1, 1), <<>>)
    ELSE LET width == imgs[1].width
             single_height == imgs[1].height
             step == single_height - ovl
             total_height == single_height + (Len(imgs) - 1) * step
         IN  IF step < 0 /\ bld = "debug"
             THEN StitchPanic("attempt to subtract with overflow")
             ELSE IF total_height < 0
                  THEN [kind |-> "oversize", width |-> width, height |-> total_height]
                  ELSE cli_StitchLoop(imgs, ovl, step, total_height, 0,
                                      BlankRaster(width, total_height), <<>>)

(***************************************************************************)
(* Strings (&str, String) are sequences of one-character strings           *)
(***************************************************************************)
Digits == <<"0", "1", "2", "3", "4", "5", "6", "7", "8", "9">>
IsDigit(c) == \E d \in 1 .. 10 : Digits[d] = c
DigitVal(c) == (CHOOSE d \in 1 .. 10 : Digits[d] = c) - 1
\* char::is_whitespace, for the characters of the model
IsWhitespace(c) == c \in {" ", "\t", "\n"}

\* Option<T>
None == <<>>
IsSome(o) == o # <<>>
Unwrap(o) == o[1]

\* str::trim
RECURSIVE trim_start(_)
trim_start(str) ==
    IF str # <<>> /\ IsWhitespace(Head(str)) THEN trim_start(Tail(str)) ELSE str

RECURSIVE trim_end(_)
trim_end(str) ==
    IF str # <<>> /\ IsWhitespace(str[Len(str)])
    THEN trim_end(SubSeq(str, 1, Len(str) - 1))
    ELSE str

trim(str) == trim_end(trim_start(str))

\* <i32 as FromStr>::from_str on the digits after the sign; the value is
\* accumulated with the sign applied and an overflow of i32 is an error
RECURSIVE ParseDigits(_, _, _, _)
ParseDigits(str, k, acc, negative) ==
    IF k > Len(str) THEN Some(acc)
    ELSE IF ~IsDigit(str[k]) THEN None
    ELSE LET d == DigitVal(str[k])
         IN  IF negative
             THEN IF acc < -214748364 \/ (acc = -214748364 /\ d > 8)
                  THEN None
                  ELSE ParseDigits(str, k + 1, acc * 10 - d, negative)
             ELSE IF acc > 214748364 \/ (acc = 214748364 /\ d > 7)
                  THEN None
                  ELSE ParseDigits(str, k + 1, acc * 10 + d, negative)

\* str::parse::<i32>().ok(): an optional sign, then at least one digit
parse_i32(str) ==
    IF str = <<>> THEN None
    ELSE IF Head(str) \in {"+", "-"}
         THEN IF Len(str) = 1 THEN None
              ELSE ParseDigits(str, 2, 0, Head(str) = "-")
         ELSE ParseDigits(str, 1, 0, FALSE)

(***************************************************************************)
(* ScreenCapture::parse_crop_region, lib.rs:42-53 (presets.rs:59-70 and    *)
(* main.rs:133-144 are the same text)                                      *)
(***************************************************************************)
IsSeparator(c) == c = "," \/ c = ":" \/ c = " "

\* str::split(pattern): the pieces between separators, empty pieces included
RECURSIVE SplitFrom(_, _, _)
SplitFrom(str, k, piece) ==
    IF k > Len(str) THEN <<piece>>
    ELSE IF IsSeparator(str[k])
         THEN <<piece>> \o SplitFrom(str, k + 1, <<>>)
         ELSE SplitFrom(str, k + 1, Append(piece, str[k]))

split(str) == SplitFrom(str, 1, <<>>)

\* .filter_map(|s| s.trim().parse().ok()).collect()
RECURSIVE filter_map_parse(_)
filter_map_parse(pieces) ==
    IF pieces = <<>> THEN <<>>
    ELSE LET v == parse_i32(trim(Head(pieces)))
         IN  (IF IsSome(v) THEN <<Unwrap(v)>> ELSE <<>>)
                 \o filter_map_parse(Tail(pieces))

\* mutation: a piece that is not a number makes the whole string invalid
parse_crop_region_strict(crop_str) ==
    LET pieces == split(crop_str)
        parts == filter_map_parse(pieces)
    IN  IF Len(parts) = Len(pieces) /\ Len(parts) = 4 /\ parts[3] > 0 /\ parts[4] > 0
        THEN Some(<<parts[1], parts[2], parts[3], parts[4]>>)
        ELSE None

\* mutation: the size fields are not tested
parse_crop_region_nosize(crop_str) ==
    LET parts == filter_map_parse(split(crop_str))
    IN  IF Len(parts) = 4
        THEN Some(<<parts[1], parts[2], parts[3], parts[4]>>)
        ELSE None

parse_crop_region(crop_str) ==
    LET parts == filter_map_parse(split(crop_str))
    IN  IF Len(parts) = 4 /\ parts[3] > 0 /\ parts[4] > 0
        THEN Some(<<parts[1], parts[2], parts[3], parts[4]>>)
        ELSE None

(***************************************************************************)
(* Results (anyhow::Result) of the functions below                         *)
(***************************************************************************)
ROk(v)    == [kind |-> "Ok", value |-> v]
RErr(why) == [kind |-> "Err", why |-> why]

(***************************************************************************)
(* ScreenCapture::get_focused_window_bounds, lib.rs:255-273 (the variant   *)
(* of lib.rs:220-253 asks osascript and also returns Ok(None) on every     *)
(* failure).  window is what the window manager answers.                   *)
(***************************************************************************)
get_focused_window_bounds(window) ==
    IF window.hwnd_null THEN ROk(None)
    ELSE IF window.rect_ok
         THEN ROk(Some(<<window.left, window.top, window.right - window.left,
                         window.bottom - window.top>>))
         ELSE ROk(None)

(***************************************************************************)
(* The crop region of a session: capture_with_scroll, lib.rs:741-763       *)
(***************************************************************************)
\* mutation: a crop string that does not parse falls through to the
\* focused-window branch
crop_region_fallthrough(crop, window_only, window) ==
    IF IsSome(crop) /\ IsSome(parse_crop_region(Unwrap(crop)))
    THEN ROk(parse_crop_region(Unwrap(crop)))
    ELSE IF window_only
         THEN LET bounds == get_focused_window_bounds(window)
              IN  IF bounds.kind = "Err" THEN bounds ELSE ROk(bounds.value)
         ELSE ROk(None)

\* Ok(region): the function goes on to the first capture with that region;
\* Err: the `?` on get_focused_window_bounds returns from the function
crop_region(crop, window_only, window) ==
    IF IsSome(crop)
    THEN ROk(parse_crop_region(Unwrap(crop)))
    ELSE IF window_only
         THEN LET bounds == get_focused_window_bounds(window)
              IN  IF bounds.kind = "Err" THEN bounds ELSE ROk(bounds.value)
         ELSE ROk(None)

\* capture_with_video, lib.rs:532-554
video_crop_region(crop, window_only, window) ==
    IF IsSome(crop)
    THEN ROk(parse_crop_region(Unwrap(crop)))
    ELSE IF window_only
         THEN LET bounds == get_focused_window_bounds(window)
              IN  IF bounds.kind = "Err" THEN bounds ELSE ROk(bounds.value)
         ELSE ROk(None)

\* the command line's capture_with_scroll, main.rs:783-805
cli_crop_region(crop, window_only, window) ==
    IF IsSome(crop)
    THEN ROk(parse_crop_region(Unwrap(crop)))
    ELSE IF window_only
         THEN LET bounds == get_focused_window_bounds(window)
              IN  IF bounds.kind = "Err" THEN bounds ELSE ROk(bounds.value)
         ELSE ROk(None)

(***************************************************************************)
(* main, main.rs:1023-1040: the crop string of the command line.           *)
(* all_presets is the result of get_all_presets(): a map from preset names *)
(* to crop strings, or the error of reading the preset file.               *)
(***************************************************************************)
\* mutation: --crop is looked at before --crop-preset
crop_value_cropfirst(crop_preset, crop, all_presets) ==
    IF IsSome(crop) THEN ROk(crop)
    ELSE IF IsSome(crop_preset)
    THEN IF all_presets.kind = "Err" THEN all_presets
         ELSE IF Unwrap(crop_preset) \in DOMAIN all_presets.value
              THEN ROk(Some(all_presets.value[Unwrap(crop_preset)]))
              ELSE RErr("Preset not found")
    ELSE ROk(crop)

crop_value(crop_preset, crop, all_presets) ==
    IF IsSome(crop_preset)
    THEN IF all_presets.kind = "Err" THEN all_presets
         ELSE IF Unwrap(crop_preset) \in DOMAIN all_presets.value
              THEN ROk(Some(all_presets.value[Unwrap(crop_preset)]))
              ELSE RErr("Preset not found")
    ELSE ROk(crop)

(***************************************************************************)
(* CaptureApp::run_capture, gui.rs:306-322: the crop option of the GUI     *)
(***************************************************************************)
\* format!("{}", n) for an i32
RECURSIVE format_digits(_)
format_digits(n) ==
    IF n < 10 THEN <<Digits[n + 1]>>
    ELSE Append(format_digits(n \div 10), Digits[(n % 10) + 1])

format_i32(n) == IF n < 0 THEN <<"-">> \o format_digits(0 - n) ELSE format_digits(n)

crop_option(config, all_presets) ==
    IF config.use_preset /\ config.selected_preset # ""
    THEN IF all_presets.kind = "Ok"
         THEN IF config.selected_preset \in DOMAIN all_presets.value
              THEN Some(all_presets.value[config.selected_preset])
              ELSE None
         ELSE None
    ELSE IF config.crop_enabled
         THEN Some(format_i32(config.crop_x) \o <<",">> \o format_i32(config.crop_y)
                   \o <<",">> \o format_i32(config.crop_width) \o <<",">>
                   \o format_i32(config.crop_height))
         ELSE None

(***************************************************************************)
(* ScreenCapture::capture_screen, lib.rs:275-322.  screen is what the      *)
(* display gives: an image, or one of the three failures.                  *)
(***************************************************************************)
Max(a, b) == IF a >= b THEN a ELSE b

capture_screen(screen, region) ==
    IF screen.kind # "image" THEN RErr(screen.kind)
    ELSE LET width == screen.image.width
             height == screen.image.height
             rgba_image == [width |-> width, height |-> height,
                            px |-> [p \in (0 .. width - 1) \X (0 .. height - 1) |->
                                       get_pixel(screen.image, p[1], p[2])]]
         IN  IF IsSome(region)
             THEN LET crop_x == Max(Unwrap(region)[1], 0)
                      crop_y == Max(Unwrap(region)[2], 0)
                      crop_w == Max(Unwrap(region)[3], 0)
                      crop_h == Max(Unwrap(region)[4], 0)
                  IN  IF crop_x + crop_w <= width /\ crop_y + crop_h <= height
                      THEN ROk([width |-> crop_w, height |-> crop_h,
                                px |-> [p \in (0 .. crop_w - 1) \X (0 .. crop_h - 1) |->
                                           get_pixel(rgba_image, crop_x + p[1],
                                                     crop_y + p[2])]])
                      ELSE ROk(rgba_image)
             ELSE ROk(rgba_image)

(***************************************************************************)
(* ScreenCapture::scroll_down, lib.rs:352-365.  enigo says how the input   *)
(* injection behaves: "ok", "new fails" or "key fails".                    *)
(***************************************************************************)
\* char::to_lowercase, for the letters of the model
LowerChar(c) ==
    CASE c = "A" -> "a" [] c = "D" -> "d" [] c = "E" -> "e" [] c = "G" -> "g"
      [] c = "N" -> "n" [] c = "O" -> "o" [] c = "P" -> "p" [] c = "W" -> "w"
      [] OTHER -> c

to_lowercase(str) == [k \in 1 .. Len(str) |-> LowerChar(str[k])]

\* mutation: the key symbol is matched as it was typed
scroll_down_casesensitive(key_type, enigo) ==
    IF enigo = "new fails"
    THEN [result |-> RErr("Enigo::new"), events |-> <<>>, slept |-> FALSE]
    ELSE LET key == CASE key_type = <<"d", "o", "w", "n">> -> "DownArrow"
                      [] key_type = <<"p", "a", "g", "e", "d", "o", "w", "n">>
                            -> "PageDown"
                      [] OTHER -> "Space"
         IN  IF enigo = "key fails"
             THEN [result |-> RErr("Enigo::key"), events |-> <<>>, slept |-> FALSE]
             ELSE [result |-> ROk("unit"), events |-> <<key>>, slept |-> TRUE]

scroll_down(key_type, enigo) ==
    IF enigo = "new fails"
    THEN [result |-> RErr("Enigo::new"), events |-> <<>>, slept |-> FALSE]
    ELSE LET lower == to_lowercase(key_type)
             key == CASE lower = <<"d", "o", "w", "n">> -> "DownArrow"
                      [] lower = <<"p", "a", "g", "e", "d", "o", "w", "n">>
                            -> "PageDown"
                      [] OTHER -> "Space"
         IN  IF enigo = "key fails"
             THEN [result |-> RErr("Enigo::key"), events |-> <<>>, slept |-> FALSE]
             ELSE [result |-> ROk("unit"), events |-> <<key>>, slept |-> TRUE]

(***************************************************************************)
(* Harness of the pure functions                                           *)
(***************************************************************************)
SessionUnused ==
    /\ mode = "none" /\ pc = "unused" /\ max_scrolls = NoLimit /\ overlap = 0
    /\ images = <<>> /\ previous_capture = NoneVal /\ current_capture = NoneVal
    /\ scroll_count = 0 /\ outcome = NoResult /\ scrolls_issued = 0
    /\ captures_done = 0 /\ observed = "none"
    /\ should_stop = FALSE /\ is_running = FALSE /\ status = "Idle"
    /\ remaining = 0 /\ saved = FALSE /\ run_result = NoResult /\ stop_at = "never"
    /\ duration = 0 /\ user_stopped = FALSE /\ ffmpeg_process = <<>>
    /\ frame_paths = <<>> /\ next_frame = 0
    /\ ui_frame = <<>> /\ workers = <<>> /\ stop_calls = {}

\* ---- SpecCmp: every pair of rasters, equal dimensions or not
CmpInit ==
    /\ build = "debug"
    /\ op = "none"
    /\ arg = NoneVal
    /\ arg_images \in Rasters \X Rasters
    /\ arg_overlap = 0
    /\ ret = NoneVal
    /\ SessionUnused

CallIdentical ==
    /\ op = "none"
    /\ Len(arg_images) = 2
    /\ op' = "identical"
    /\ ret' = images_are_identical(arg_images[1], arg_images[2])
    /\ UNCHANGED <<build, arg, arg_images, arg_overlap, loopVars, guiVars, videoVars,
                   appVars>>

CallSimilar ==
    /\ op = "none"
    /\ Len(arg_images) = 2
    /\ \E h \in 0 .. MaxH :
          /\ arg_overlap' = h
          /\ ret' = images_are_similar(arg_images[1], arg_images[2], h)
    /\ op' = "similar"
    /\ UNCHANGED <<build, arg, arg_images, loopVars, guiVars, videoVars, appVars>>

CmpNext == CallIdentical \/ CallSimilar

SpecCmp == CmpInit /\ [][CmpNext]_vars

\* ---- SpecStitch: frame lists of every length up to MaxFrames; every pixel
\* of every frame has its own value, so the result shows where it came from
Label(i, x, y) == 100 * (i + 1) + 10 * y + x

LabelledFrame(i, w, h) ==
    [width |-> w, height |-> h,
     px |-> [p \in (0 .. w - 1) \X (0 .. h - 1) |-> Label(i, p[1], p[2])]]

FrameLists ==
    UNION {{[i \in 1 .. n |-> LabelledFrame(i - 1, d[i][1], d[i][2])] :
               d \in [1 .. n -> Widths \X (1 .. MaxStitchH)]} : n \in 0 .. MaxFrames}

\* a tall raster that is scrolled past the screen: "labelled" gives every
\* pixel its own value, "striped" repeats its rows with period two
DocumentKinds == {"labelled", "striped"}

DocumentHeight == MaxStitchH * MaxFrames

Document(kind, w) ==
    [width |-> w, height |-> DocumentHeight,
     px |-> [p \in (0 .. w - 1) \X (0 .. DocumentHeight - 1) |->
                IF kind = "labelled" THEN 1000 + 10 * p[2] + p[1]
                ELSE 1 + ((p[1] + p[2]) % 2)]]

\* the rows [top, top + h) of doc, as capture_screen returns what is on screen
Window(doc, top, h) ==
    [width |-> doc.width, height |-> h,
     px |-> [p \in (0 .. doc.width - 1) \X (0 .. h - 1) |->
                doc.px[<<p[1], top + p[2]>>]]]

\* n captures of a screen of height h, the document moved by h - ovl rows
\* between two captures
WindowsOf(doc, n, h, ovl) ==
    [i \in 1 .. n |-> Window(doc, (i - 1) * (h - ovl), h)]

WindowLists ==
    UNION {{WindowsOf(Document(kind, w), n, h, ovl) :
               kind \in DocumentKinds, w \in Widths, n \in 1 .. MaxFrames,
               ovl \in 0 .. h - 1} : h \in 1 .. MaxStitchH}

StitchInit ==
    /\ build \in {"debug", "release"}
    /\ op = "none"
    /\ arg = NoneVal
    /\ arg_images \in FrameLists \cup WindowLists
    /\ arg_overlap \in 0 .. MaxStitchH + 1
    /\ ret = NoneVal
    /\ SessionUnused

CallStitch ==
    /\ op = "none"
    /\ op' = "stitch"
    /\ ret' = stitch_images(arg_images, arg_overlap, build)
    /\ UNCHANGED <<build, arg, arg_images, arg_overlap, loopVars, guiVars, videoVars,
                   appVars>>

\* the same frames and overlap given to the stitcher of the binary
CallCliStitch ==
    /\ op = "none"
    /\ op' = "cli_stitch"
    /\ ret' = cli_stitch_images(arg_images, arg_overlap, build)
    /\ UNCHANGED <<build, arg, arg_images, arg_overlap, loopVars, guiVars, videoVars,
                   appVars>>

StitchNext == CallStitch \/ CallCliStitch

SpecStitch == StitchInit /\ [][StitchNext]_vars

\* ---- SpecCalls: parse_crop_region, the crop resolution of each entry
\* point, capture_screen and scroll_down, each applied once to an input
\* drawn from a bounded set.  arg.fn names the function the input is for.

\* crop strings are put together from pieces and separators, so that what
\* each piece means is known without parsing it
IntegerPieces == {<<"1", "0">>, <<"0">>, <<"-", "5">>}
Pieces == IntegerPieces \cup {<<"x">>, <<>>, <<"\t", "7">>}
ExamplePieces == <<<<"1", "0">>, <<"2", "0">>, <<"3", "0", "0">>, <<"4", "0", "0">>>>

Meaning(piece) ==
    CASE piece = <<"1", "0">> -> Some(10)
      [] piece = <<"0">> -> Some(0)
      [] piece = <<"-", "5">> -> Some(0 - 5)
      [] piece = <<"\t", "7">> -> Some(7)
      [] piece = <<"2", "0">> -> Some(20)
      [] piece = <<"3", "0", "0">> -> Some(300)
      [] piece = <<"4", "0", "0">> -> Some(400)
      [] OTHER -> None

SeparatorPatterns == {<<",">>, <<":">>, <<" ">>, <<",", ":", " ">>}

\* the pieces joined by the separators of the pattern, taken in turn
RECURSIVE Join(_, _, _)
Join(pieces, pattern, k) ==
    IF k > Len(pieces) THEN <<>>
    ELSE IF k = Len(pieces) THEN pieces[k]
    ELSE pieces[k] \o <<pattern[((k - 1) % Len(pattern)) + 1]>>
             \o Join(pieces, pattern, k + 1)

ParseInputs ==
    {[fn |-> "parse", pieces |-> f, seps |-> p] :
        f \in UNION {[1 .. n -> Pieces] : n \in 0 .. MaxFields}
                 \cup {ExamplePieces, SubSeq(ExamplePieces, 1, 3),
                       [ExamplePieces EXCEPT ![3] = <<"0">>]},
        p \in SeparatorPatterns}

StrA     == <<"0", ",", "0", ",", "1", ",", "2">>
StrB     == <<"1", ":", "0", ":", "1", ":", "1">>
StrShort == <<"0", ",", "0", ",", "1">>
StrZero  == <<"0", ",", "0", ",", "0", ",", "2">>

\* what each of these strings says, read by eye
RegionOf(str) ==
    CASE str = StrA -> Some(<<0, 0, 1, 2>>)
      [] str = StrB -> Some(<<1, 0, 1, 1>>)
      [] OTHER -> None

CropArgs == {None, Some(StrA), Some(StrShort), Some(StrZero)}

\* the answers of the window manager: no foreground window, no rectangle,
\* a window at (1, 0) of size 1 x 2
Windows ==
    {[hwnd_null |-> n, rect_ok |-> r, left |-> 1, top |-> 0, right |-> 2, bottom |-> 2] :
        n \in BOOLEAN, r \in BOOLEAN}

Answers(window) == ~window.hwnd_null /\ window.rect_ok
WindowRegion == <<1, 0, 1, 2>>

RegionInputs(fn) ==
    {[fn |-> fn, crop |-> c, window_only |-> w, window |-> win] :
        c \in CropArgs, w \in BOOLEAN, win \in Windows}

\* the preset file: one preset with a good string, one with a short string
PresetTable == [name \in {"small", "broken"} |->
                   IF name = "small" THEN StrB ELSE StrShort]

AllPresets(presets_ok) ==
    IF presets_ok THEN ROk(PresetTable) ELSE RErr("load_presets")

CliInputs ==
    {[fn |-> "cli", crop_preset |-> cp, crop |-> c, presets_ok |-> ok,
      window_only |-> w, window |-> win] :
        cp \in {None, Some("small"), Some("broken"), Some("missing")},
        c \in CropArgs, ok \in BOOLEAN, w \in BOOLEAN, win \in Windows}

GuiConfigs ==
    [use_preset : BOOLEAN, selected_preset : {"", "small", "missing"},
     crop_enabled : BOOLEAN, crop_x : {0 - 3, 0}, crop_y : {0},
     crop_width : {0, 12}, crop_height : {2}]

GuiInputs ==
    {[fn |-> "gui", config |-> cfg, presets_ok |-> ok] :
        cfg \in GuiConfigs, ok \in BOOLEAN}

ScreenRegions ==
    {None} \cup {Some(<<x, y, w, h>>) :
                    x \in (0 - 1) .. MaxScreen, y \in (0 - 1) .. MaxScreen,
                    w \in 0 .. MaxScreen + 1, h \in 0 .. MaxScreen + 1}

CaptureInputs ==
    {[fn |-> "capture", screen |-> [kind |-> "image", image |-> LabelledFrame(0, w, h)],
      region |-> r] :
        w \in 1 .. MaxScreen, h \in 1 .. MaxScreen, r \in ScreenRegions}

CaptureFailures ==
    {[fn |-> "capture", screen |-> [kind |-> k], region |-> None] :
        k \in {"Failed to get screens", "No screen found", "Failed to capture screen"}}

\* key symbols as the user may type them, with the symbol each spells
KeyInputs ==
    {[text |-> <<"d", "o", "w", "n">>, symbol |-> "down"],
     [text |-> <<"D", "O", "W", "N">>, symbol |-> "down"],
     [text |-> <<"D", "o", "w", "n">>, symbol |-> "down"],
     [text |-> <<"p", "a", "g", "e", "d", "o", "w", "n">>, symbol |-> "pagedown"],
     [text |-> <<"P", "a", "g", "e", "D", "o", "w", "n">>, symbol |-> "pagedown"],
     [text |-> <<"P", "A", "G", "E", "D", "O", "W", "N">>, symbol |-> "pagedown"],
     [text |-> <<"s", "p", "a", "c", "e">>, symbol |-> "other"],
     [text |-> <<>>, symbol |-> "other"],
     [text |-> <<"u", "p">>, symbol |-> "other"],
     [text |-> <<"d", "o", "w", "n", " ">>, symbol |-> "other"],
     [text |-> <<"p", "a", "g", "e", " ", "d", "o", "w", "n">>, symbol |-> "other"],
     [text |-> <<"p", "g", "d", "n">>, symbol |-> "other"]}

ScrollInputs ==
    {[fn |-> "scroll", key |-> k, enigo |-> e] :
        k \in KeyInputs, e \in {"ok", "new fails", "key fails"}}

CallsInit ==
    /\ build = "debug"
    /\ op = "none"
    /\ \/ arg \in ParseInputs
       \/ arg \in RegionInputs("lib")
       \/ arg \in RegionInputs("video")
       \/ arg \in CliInputs
       \/ arg \in GuiInputs
       \/ arg \in CaptureInputs
       \/ arg \in CaptureFailures
       \/ arg \in ScrollInputs
    /\ arg_images = <<>>
    /\ arg_overlap = 0
    /\ ret = NoneVal
    /\ SessionUnused

callFrame == <<build, arg, arg_images, arg_overlap, loopVars, guiVars, videoVars,
               appVars>>

CallParse ==
    /\ op = "none" /\ arg.fn = "parse"
    /\ op' = "parse"
    /\ ret' = parse_crop_region(Join(arg.pieces, arg.seps, 1))
    /\ UNCHANGED callFrame

CallCropRegion ==
    /\ op = "none" /\ arg.fn = "lib"
    /\ op' = "lib"
    /\ ret' = crop_region(arg.crop, arg.window_only, arg.window)
    /\ UNCHANGED callFrame

CallVideoCropRegion ==
    /\ op = "none" /\ arg.fn = "video"
    /\ op' = "video"
    /\ ret' = video_crop_region(arg.crop, arg.window_only, arg.window)
    /\ UNCHANGED callFrame

\* main.rs:1023-1040, then the crop region of the capture main calls
CallCli ==
    /\ op = "none" /\ arg.fn = "cli"
    /\ op' = "cli"
    /\ ret' = LET value == crop_value(arg.crop_preset, arg.crop,
                                      AllPresets(arg.presets_ok))
              IN  [crop_value |-> value,
                   region |-> IF value.kind = "Err" THEN value
                              ELSE cli_crop_region(value.value, arg.window_only,
                                                   arg.window)]
    /\ UNCHANGED callFrame

CallGui ==
    /\ op = "none" /\ arg.fn = "gui"
    /\ op' = "gui"
    /\ ret' = crop_option(arg.config, AllPresets(arg.presets_ok))
    /\ UNCHANGED callFrame

CallCaptureScreen ==
    /\ op = "none" /\ arg.fn = "capture"
    /\ op' = "capture"
    /\ ret' = capture_screen(arg.screen, arg.region)
    /\ UNCHANGED callFrame

CallScrollDown ==
    /\ op = "none" /\ arg.fn = "scroll"
    /\ op' = "scroll"
    /\ ret' = scroll_down(arg.key.text, arg.enigo)
    /\ UNCHANGED callFrame

CallsNext ==
    \/ CallParse \/ CallCropRegion \/ CallVideoCropRegion \/ CallCli \/ CallGui
    \/ CallCaptureScreen \/ CallScrollDown

SpecCalls == CallsInit /\ [][CallsNext]_vars

(***************************************************************************)
(* One capture session (Spec)                                              *)
(*                                                                         *)
(* mode = "lib": ScreenCapture::capture_with_scroll, lib.rs:714-852.       *)
(* mode = "gui": CaptureApp on the UI thread and its worker thread running *)
(* run_capture, gui.rs:228-363.  run_capture calls                         *)
(* capture_with_scroll_with_stop; its body follows the design text: the    *)
(* loop of capture_with_scroll with the stop flag read at the top of every *)
(* iteration, before the next scroll, and without terminal key polling.    *)
(***************************************************************************)
ScreenFrames == RastersOf(1, 2)
    \* what capture_screen can return during one session: one crop region,
    \* so one size, any content
SessionOverlaps == {0, 1, 3}
    \* no overlap, an overlap inside the frame, an overlap above the frame height

VideoDurations == {0, 1, 2, 3}
    \* below, at and above the two seconds that lib.rs:607 subtracts
VideoFrameLists == UNION {[1 .. n -> ScreenFrames] : n \in 0 .. MaxFrames}
    \* what the frame extraction can leave in frames_dir

Ok(v)        == [kind |-> "Ok", value |-> v]
Err(why)     == [kind |-> "Err", why |-> why]
Cancelled    == [kind |-> "Cancelled", why |-> "stop requested"]
Crashed(why) == [kind |-> "Crashed", why |-> why]

Init ==
    /\ build \in {"debug", "release"}
    /\ op = "none" /\ arg = NoneVal /\ arg_images = <<>> /\ arg_overlap = 0
    /\ ret = NoneVal
    /\ mode \in {"lib", "gui", "video"}
    /\ pc = IF mode = "lib" THEN "start" ELSE IF mode = "gui" THEN "idle" ELSE "v_start"
    /\ max_scrolls \in IF mode = "video" THEN {NoLimit}
                       ELSE {NoLimit} \cup {Some(n) : n \in 0 .. MaxScrollLimit}
    /\ duration \in IF mode = "video" THEN VideoDurations ELSE {0}
    /\ user_stopped = FALSE
    /\ ffmpeg_process = <<>>
    /\ frame_paths = <<>>
    /\ next_frame = 0
    /\ overlap \in SessionOverlaps
    /\ images = <<>>
    /\ previous_capture = NoneVal
    /\ current_capture = NoneVal
    /\ scroll_count = 0
    /\ outcome = NoResult
    /\ scrolls_issued = 0
    /\ captures_done = 0
    /\ observed = "none"
    /\ should_stop = FALSE
    /\ is_running = FALSE
    /\ status = "Idle"
    /\ remaining = 0
    /\ saved = FALSE
    /\ run_result = NoResult
    /\ stop_at = "never"
    /\ ui_frame = <<>>
    /\ workers = <<>>
    /\ stop_calls = {}

\* the function returns: to its caller (lib) or into run_capture (gui)
Return(result) ==
    /\ outcome' = result
    /\ pc' = IF mode = "gui" THEN "g_returned"
             ELSE IF result.kind = "Ok" THEN "done"
             ELSE IF result.kind = "Crashed" THEN "crashed"
             ELSE "errored"

\* lib.rs:724-763: the start delay and the resolution of the crop region
Begin ==
    /\ pc = "start"
    /\ pc' = "seed"
    /\ UNCHANGED <<fnVars, videoVars, appVars, mode, max_scrolls, overlap, images, previous_capture,
                   current_capture, scroll_count, outcome, scrolls_issued,
                   captures_done, observed, guiVars>>

\* lib.rs:765-775: the first capture, or its failure propagated by `?`
SeedCapture ==
    /\ pc = "seed"
    /\ captures_done' = captures_done + 1
    /\ \/ /\ Return(Err("capture_screen"))
          /\ UNCHANGED <<images, previous_capture, scroll_count>>
       \/ \E first_capture \in ScreenFrames :
             /\ images' = <<first_capture>>
             /\ previous_capture' = first_capture
             /\ scroll_count' = 0
             /\ pc' = IF mode = "gui" THEN "flag" ELSE "top"
             /\ UNCHANGED outcome
    /\ UNCHANGED <<fnVars, videoVars, appVars, mode, max_scrolls, overlap, current_capture,
                   scrolls_issued, observed, guiVars>>

\* capture_with_scroll_with_stop: the stop flag is read at the top of every
\* iteration, before the next scroll
StopFlagCheck ==
    /\ pc = "flag"
    /\ IF should_stop
       THEN /\ observed' = "flag"
            /\ Return(Cancelled)
       ELSE /\ pc' = "top"
            /\ UNCHANGED <<observed, outcome>>
    /\ UNCHANGED <<fnVars, videoVars, appVars, mode, max_scrolls, overlap, images, previous_capture,
                   current_capture, scroll_count, scrolls_issued, captures_done,
                   guiVars>>

\* position after `break`: lib.rs:838 drains the key events first
AfterLoop == IF mode = "lib" THEN "drain" ELSE "stitch"

\* mutation: an absent limit is read as a limit of one scroll
LoopTop_defaultlimit ==
    /\ pc = "top"
    /\ IF scroll_count >= (IF max_scrolls = NoLimit THEN 1 ELSE max_scrolls[1])
       THEN pc' = AfterLoop
       ELSE pc' = "scroll"
    /\ UNCHANGED <<fnVars, videoVars, appVars, mode, max_scrolls, overlap, images, previous_capture,
                   current_capture, scroll_count, outcome, scrolls_issued,
                   captures_done, observed, guiVars>>

\* mutation: the limit test is  scroll_count > max
LoopTop_gt ==
    /\ pc = "top"
    /\ IF max_scrolls # NoLimit /\ scroll_count > max_scrolls[1]
       THEN pc' = AfterLoop
       ELSE /\ max_scrolls = NoLimit => scroll_count < MaxIter
            /\ pc' = "scroll"
    /\ UNCHANGED <<fnVars, videoVars, appVars, mode, max_scrolls, overlap, images, previous_capture,
                   current_capture, scroll_count, outcome, scrolls_issued,
                   captures_done, observed, guiVars>>

\* lib.rs:777-796: the limit test at the top of the loop
LoopTop ==
    /\ pc = "top"
    /\ IF max_scrolls # NoLimit /\ scroll_count >= max_scrolls[1]
       THEN pc' = AfterLoop
       ELSE /\ max_scrolls = NoLimit => scroll_count < MaxIter
            /\ pc' = "scroll"
    /\ UNCHANGED <<fnVars, videoVars, appVars, mode, max_scrolls, overlap, images, previous_capture,
                   current_capture, scroll_count, outcome, scrolls_issued,
                   captures_done, observed, guiVars>>

\* mutation: every call of scroll_down sends two scroll inputs
ScrollDown_twokeys ==
    /\ pc = "scroll"
    /\ \/ /\ Return(Err("scroll_down"))
          /\ UNCHANGED scrolls_issued
       \/ /\ scrolls_issued' = scrolls_issued + 2
          /\ pc' = "settle"
          /\ UNCHANGED outcome
    /\ UNCHANGED <<fnVars, videoVars, appVars, mode, max_scrolls, overlap, images, previous_capture,
                   current_capture, scroll_count, captures_done, observed, guiVars>>

\* lib.rs:798 and scroll_down, lib.rs:352-365: one key event and the wait
\* that follows it, or the failure of Enigo propagated by `?`
ScrollDown ==
    /\ pc = "scroll"
    /\ \/ /\ Return(Err("scroll_down"))
          /\ UNCHANGED scrolls_issued
       \/ /\ scrolls_issued' = scrolls_issued + 1
          /\ pc' = "settle"
          /\ UNCHANGED outcome
    /\ UNCHANGED <<fnVars, videoVars, appVars, mode, max_scrolls, overlap, images, previous_capture,
                   current_capture, scroll_count, captures_done, observed, guiVars>>

\* lib.rs:801: thread::sleep(scroll_delay_ms)
Settle ==
    /\ pc = "settle"
    /\ pc' = "capture"
    /\ UNCHANGED <<fnVars, videoVars, appVars, mode, max_scrolls, overlap, images, previous_capture,
                   current_capture, scroll_count, outcome, scrolls_issued,
                   captures_done, observed, guiVars>>

\* mutation: a failed capture is noted, the loop is left with `break` and
\* the frames accumulated so far are stitched
Capture_stitchonfail ==
    /\ pc = "capture"
    /\ captures_done' = captures_done + 1
    /\ \/ /\ outcome' = Err("capture_screen")
          /\ pc' = AfterLoop
          /\ UNCHANGED current_capture
       \/ /\ current_capture' \in ScreenFrames
          /\ pc' = "compare"
          /\ UNCHANGED outcome
    /\ UNCHANGED <<fnVars, videoVars, appVars, mode, max_scrolls, overlap, images,
                   previous_capture, scroll_count, scrolls_issued, observed, guiVars>>

\* lib.rs:803-804
Capture ==
    /\ pc = "capture"
    /\ captures_done' = captures_done + 1
    /\ \/ /\ Return(Err("capture_screen"))
          /\ UNCHANGED current_capture
       \/ /\ current_capture' \in ScreenFrames
          /\ pc' = "compare"
          /\ UNCHANGED outcome
    /\ UNCHANGED <<fnVars, videoVars, appVars, mode, max_scrolls, overlap, images, previous_capture,
                   scroll_count, scrolls_issued, observed, guiVars>>

\* mutation: previous_capture is not replaced by the appended frame
Compare_keepprevious ==
    /\ pc = "compare"
    /\ LET is_identical ==
               images_are_identical(previous_capture, current_capture).identical
       IN  IF is_identical
           THEN /\ pc' = AfterLoop
                /\ UNCHANGED <<images, scroll_count>>
           ELSE /\ images' = Append(images, current_capture)
                /\ scroll_count' = scroll_count + 1
                /\ pc' = IF mode = "gui" THEN "flag" ELSE "poll"
    /\ UNCHANGED <<fnVars, videoVars, appVars, mode, max_scrolls, overlap, previous_capture,
                   current_capture, outcome, scrolls_issued, captures_done, observed,
                   guiVars>>

\* mutation: the new frame is put at the front of the list
Compare_prepend ==
    /\ pc = "compare"
    /\ LET is_identical ==
               images_are_identical(previous_capture, current_capture).identical
       IN  IF is_identical
           THEN /\ pc' = AfterLoop
                /\ UNCHANGED <<images, previous_capture, scroll_count>>
           ELSE /\ images' = <<current_capture>> \o images
                /\ previous_capture' = current_capture
                /\ scroll_count' = scroll_count + 1
                /\ pc' = IF mode = "gui" THEN "flag" ELSE "poll"
    /\ UNCHANGED <<fnVars, videoVars, appVars, mode, max_scrolls, overlap, current_capture, outcome,
                   scrolls_issued, captures_done, observed, guiVars>>

\* mutation: the new frame is pushed and counted before the identity test
Compare_pushfirst ==
    /\ pc = "compare"
    /\ images' = Append(images, current_capture)
    /\ previous_capture' = current_capture
    /\ scroll_count' = scroll_count + 1
    /\ IF images_are_identical(previous_capture, current_capture).identical
       THEN pc' = AfterLoop
       ELSE pc' = IF mode = "gui" THEN "flag" ELSE "poll"
    /\ UNCHANGED <<fnVars, videoVars, appVars, mode, max_scrolls, overlap, current_capture, outcome,
                   scrolls_issued, captures_done, observed, guiVars>>

\* lib.rs:806-820: the identity test; `break` on identical, else the frame
\* is appended and counted
Compare ==
    /\ pc = "compare"
    /\ LET is_identical ==
               images_are_identical(previous_capture, current_capture).identical
       IN  IF is_identical
           THEN /\ pc' = AfterLoop
                /\ UNCHANGED <<images, previous_capture, scroll_count>>
           ELSE /\ images' = Append(images, current_capture)
                /\ previous_capture' = current_capture
                /\ scroll_count' = scroll_count + 1
                /\ pc' = IF mode = "gui" THEN "flag" ELSE "poll"
    /\ UNCHANGED <<fnVars, videoVars, appVars, mode, max_scrolls, overlap, current_capture, outcome,
                   scrolls_issued, captures_done, observed, guiVars>>

\* lib.rs:822-835: poll(500ms) and read; Q or q breaks the loop, any other
\* event or none continues it; a failure of poll or read is propagated by `?`
PollKey ==
    /\ pc = "poll"
    /\ \/ /\ Return(Err("poll"))
          /\ UNCHANGED observed
       \/ \E key \in {"none", "q", "other"} :
             /\ IF key = "q"
                THEN observed' = "key" /\ pc' = "drain"
                ELSE UNCHANGED observed /\ pc' = "top"
             /\ UNCHANGED outcome
    /\ UNCHANGED <<fnVars, videoVars, appVars, mode, max_scrolls, overlap, images, previous_capture,
                   current_capture, scroll_count, scrolls_issued, captures_done,
                   guiVars>>

\* lib.rs:838-841: while poll(0)? { read() }
DrainEvents ==
    /\ pc = "drain"
    /\ \/ Return(Err("poll"))
       \/ pc' = "stitch" /\ UNCHANGED outcome
    /\ UNCHANGED <<fnVars, videoVars, appVars, mode, max_scrolls, overlap, images, previous_capture,
                   current_capture, scroll_count, scrolls_issued, captures_done,
                   observed, guiVars>>

\* lib.rs:843-851: the frames are stitched and the raster returned; a panic
\* of the stitcher unwinds through the caller
Stitch ==
    /\ pc = "stitch"
    /\ LET result == stitch_images(images, overlap, build)
       IN  IF result.kind = "image"
           THEN Return(Ok(result.image))
           ELSE /\ outcome' = Crashed(result.kind)
                /\ pc' = "crashed"
    /\ UNCHANGED <<fnVars, videoVars, appVars, mode, max_scrolls, overlap, images, previous_capture,
                   current_capture, scroll_count, scrolls_issued, captures_done,
                   observed, guiVars>>

\* ---- the UI thread, gui.rs:228-265 and 421-437
\* Start button (enabled while is_running is false): start_capture
StartCapture ==
    /\ mode = "gui" /\ pc = "idle"
    /\ ~is_running
    /\ is_running' = TRUE
    /\ should_stop' = FALSE
    /\ status' = "Running"
    /\ remaining' \in 0 .. MaxDelay
    /\ pc' = "g_entry"
    /\ UNCHANGED <<fnVars, videoVars, appVars, mode, max_scrolls, overlap, images, previous_capture,
                   current_capture, scroll_count, outcome, scrolls_issued,
                   captures_done, observed, saved, run_result, stop_at>>

\* Stop button (enabled while is_running is true): stop_capture
StopCapture ==
    /\ mode = "gui"
    /\ is_running
    /\ ~should_stop
    /\ should_stop' = TRUE
    /\ stop_at' = pc
    /\ UNCHANGED <<fnVars, videoVars, appVars, loopVars, is_running, status, remaining, saved,
                   run_result>>

\* ---- the worker thread: run_capture, gui.rs:273-363
\* gui.rs:282-286: if config.delay > 0
RunCaptureEntry ==
    /\ pc = "g_entry"
    /\ pc' = IF remaining > 0 THEN "cd_check" ELSE "g_setup"
    /\ UNCHANGED <<fnVars, videoVars, appVars, mode, max_scrolls, overlap, images, previous_capture,
                   current_capture, scroll_count, outcome, scrolls_issued,
                   captures_done, observed, guiVars>>

\* gui.rs:289-298: the status line and the test of the stop flag
CountdownCheck ==
    /\ pc = "cd_check"
    /\ status' = "Running"
    /\ IF should_stop
       THEN /\ run_result' = Err("Capture cancelled during countdown")
            /\ pc' = "g_exit"
       ELSE /\ pc' = "cd_sleep"
            /\ UNCHANGED run_result
    /\ UNCHANGED <<fnVars, videoVars, appVars, mode, max_scrolls, overlap, images, previous_capture,
                   current_capture, scroll_count, outcome, scrolls_issued,
                   captures_done, observed, should_stop, is_running, remaining,
                   saved, stop_at>>

\* gui.rs:300: sleep one second, then the next round of the for loop
CountdownSleep ==
    /\ pc = "cd_sleep"
    /\ remaining' = remaining - 1
    /\ pc' = IF remaining - 1 > 0 THEN "cd_check" ELSE "g_setup"
    /\ UNCHANGED <<fnVars, videoVars, appVars, mode, max_scrolls, overlap, images, previous_capture,
                   current_capture, scroll_count, outcome, scrolls_issued,
                   captures_done, observed, should_stop, is_running, status, saved,
                   run_result, stop_at>>

\* gui.rs:304-355: crop option, log lines, status, and the call of
\* capture_with_scroll_with_stop with delay 0
RunCaptureSetup ==
    /\ pc = "g_setup"
    /\ status' = "Running"
    /\ pc' = "start"
    /\ UNCHANGED <<fnVars, videoVars, appVars, mode, max_scrolls, overlap, images, previous_capture,
                   current_capture, scroll_count, outcome, scrolls_issued,
                   captures_done, observed, should_stop, is_running, remaining,
                   saved, run_result, stop_at>>

\* gui.rs:345-359: `?` on the result of the loop, then the "Saving image..." status
RunCaptureAfterLoop ==
    /\ pc = "g_returned"
    /\ IF outcome.kind = "Ok"
       THEN /\ status' = "Running"
            /\ pc' = "g_save"
            /\ UNCHANGED run_result
       ELSE /\ run_result' = outcome
            /\ pc' = "g_exit"
            /\ UNCHANGED status
    /\ UNCHANGED <<fnVars, videoVars, appVars, mode, max_scrolls, overlap, images, previous_capture,
                   current_capture, scroll_count, outcome, scrolls_issued,
                   captures_done, observed, should_stop, is_running, remaining,
                   saved, stop_at>>

\* mutation: the result of save is dropped and run_capture returns Ok
SaveImage_ignoreerror ==
    /\ pc = "g_save"
    /\ \/ saved' = TRUE /\ run_result' = Ok("output_path")
       \/ UNCHANGED saved /\ run_result' = Ok("output_path")
    /\ pc' = "g_exit"
    /\ UNCHANGED <<fnVars, videoVars, appVars, mode, max_scrolls, overlap, images, previous_capture,
                   current_capture, scroll_count, outcome, scrolls_issued,
                   captures_done, observed, should_stop, is_running, status,
                   remaining, stop_at>>

\* gui.rs:361-362: result_image.save(&config.output_path)?
SaveImage ==
    /\ pc = "g_save"
    /\ \/ saved' = TRUE /\ run_result' = Ok("output_path")
       \/ UNCHANGED saved /\ run_result' = Err("save")
    /\ pc' = "g_exit"
    /\ UNCHANGED <<fnVars, videoVars, appVars, mode, max_scrolls, overlap, images, previous_capture,
                   current_capture, scroll_count, outcome, scrolls_issued,
                   captures_done, observed, should_stop, is_running, status,
                   remaining, stop_at>>

\* gui.rs:248: *is_running.lock().unwrap() = false
WorkerClearRunning ==
    /\ pc = "g_exit"
    /\ is_running' = FALSE
    /\ pc' = "g_status"
    /\ UNCHANGED <<fnVars, videoVars, appVars, mode, max_scrolls, overlap, images, previous_capture,
                   current_capture, scroll_count, outcome, scrolls_issued,
                   captures_done, observed, should_stop, status, remaining, saved,
                   run_result, stop_at>>

\* gui.rs:250-259: the final status
WorkerSetStatus ==
    /\ pc = "g_status"
    /\ status' = IF run_result.kind = "Ok" THEN "Completed" ELSE "Error"
    /\ pc' = "finished"
    /\ UNCHANGED <<fnVars, videoVars, appVars, mode, max_scrolls, overlap, images, previous_capture,
                   current_capture, scroll_count, outcome, scrolls_issued,
                   captures_done, observed, should_stop, is_running, remaining,
                   saved, run_result, stop_at>>

(***************************************************************************)
(* The video path: ScreenCapture::capture_with_video, lib.rs:494-712       *)
(***************************************************************************)
Crash(why) ==
    /\ outcome' = Crashed(why)
    /\ pc' = "crashed"

\* lib.rs:504-554: the start delay, the clean-up of old files, create_dir_all
\* (propagated by `?`) and the resolution of the crop region
VideoBegin ==
    /\ pc = "v_start"
    /\ \/ Return(Err("create_dir_all"))
       \/ pc' = "v_spawn" /\ UNCHANGED outcome
    /\ UNCHANGED <<fnVars, videoVars, appVars, mode, max_scrolls, overlap, images,
                   previous_capture, current_capture, scroll_count,
                   scrolls_issued, captures_done, observed, guiVars>>

\* lib.rs:556-608: the recorder is spawned, two seconds pass, and end_time is
\* now + (duration - 2) seconds.  duration is u64: below 2 the subtraction
\* panics in the debug profile and wraps in the release profile, where
\* Instant + Duration then panics because the sum is not representable.
\* A std::process::Child that goes out of scope is neither signalled, nor
\* killed, nor waited for.
VideoSpawn ==
    /\ pc = "v_spawn"
    /\ \/ /\ Return(Err("Failed to start ffmpeg"))
          /\ UNCHANGED <<user_stopped, ffmpeg_process>>
       \/ /\ ffmpeg_process' = Append(ffmpeg_process, "spawn")
          /\ IF duration < 2
             THEN Crash(IF build = "debug" THEN "attempt to subtract with overflow"
                        ELSE "overflow when adding duration to instant")
             ELSE pc' = "v_top" /\ UNCHANGED outcome
          /\ user_stopped' = FALSE
    /\ UNCHANGED <<fnVars, appVars, duration, frame_paths, next_frame, mode, max_scrolls,
                   overlap, images, previous_capture, current_capture,
                   scroll_count, scrolls_issued, captures_done, observed, guiVars>>

\* lib.rs:610: while Instant::now() < end_time.  Every round sleeps 500 ms
\* in scroll_down, so at most 2 * (duration - 2) rounds start; the clock may
\* also run out earlier.
VideoLoopTop ==
    /\ pc = "v_top"
    /\ \/ pc' = "v_drain"
       \/ /\ scrolls_issued < 2 * (duration - 2)
          /\ pc' = "v_scroll"
    /\ UNCHANGED <<fnVars, videoVars, appVars, mode, max_scrolls, overlap, images,
                   previous_capture, current_capture, scroll_count, outcome,
                   scrolls_issued, captures_done, observed, guiVars>>

\* lib.rs:611: self.scroll_down(key_type)?
VideoScroll ==
    /\ pc = "v_scroll"
    /\ \/ /\ Return(Err("scroll_down"))
          /\ UNCHANGED scrolls_issued
       \/ /\ scrolls_issued' = scrolls_issued + 1
          /\ pc' = "v_poll"
          /\ UNCHANGED outcome
    /\ UNCHANGED <<fnVars, videoVars, appVars, mode, max_scrolls, overlap, images,
                   previous_capture, current_capture, scroll_count,
                   captures_done, observed, guiVars>>

\* lib.rs:613-626: Q or q ends the recording loop early
VideoPoll ==
    /\ pc = "v_poll"
    /\ \/ /\ Return(Err("poll"))
          /\ UNCHANGED user_stopped
       \/ \E key \in {"none", "q", "other"} :
             /\ IF key = "q"
                THEN user_stopped' = TRUE /\ pc' = "v_drain"
                ELSE UNCHANGED user_stopped /\ pc' = "v_top"
             /\ UNCHANGED outcome
    /\ UNCHANGED <<fnVars, appVars, duration, ffmpeg_process, frame_paths, next_frame, mode,
                   max_scrolls, overlap, images, previous_capture, current_capture,
                   scroll_count, scrolls_issued, captures_done, observed, guiVars>>

\* lib.rs:629-645: pending key events are drained (`?` on poll), then q is
\* written to the recorder's stdin and the recorder is waited for
VideoStopRecording ==
    /\ pc = "v_drain"
    /\ \/ Return(Err("poll")) /\ UNCHANGED ffmpeg_process
       \/ /\ ffmpeg_process' = ffmpeg_process \o <<"q", "wait">>
          /\ pc' = "v_extract"
          /\ UNCHANGED outcome
    /\ UNCHANGED <<fnVars, appVars, duration, user_stopped, frame_paths, next_frame, mode,
                   max_scrolls, overlap, images,
                   previous_capture, current_capture, scroll_count,
                   scrolls_issued, captures_done, observed, guiVars>>

\* mutation: the list of frame paths is not tested for emptiness
VideoExtract_noemptytest ==
    /\ pc = "v_extract"
    /\ \/ /\ \E why \in {"Failed to extract frames", "Frame extraction failed",
                         "read_dir"} : Return(Err(why))
          /\ UNCHANGED <<frame_paths, images, next_frame>>
       \/ /\ frame_paths' \in VideoFrameLists
          /\ pc' = "v_load"
          /\ images' = <<>>
          /\ next_frame' = 0
          /\ UNCHANGED outcome
    /\ UNCHANGED <<fnVars, appVars, duration, user_stopped, ffmpeg_process, mode, max_scrolls,
                   overlap, previous_capture, current_capture, scroll_count,
                   scrolls_issued, captures_done, observed, guiVars>>

\* lib.rs:648-680: the frames are extracted (the extractor may fail to start
\* or exit non-zero), the png paths are listed and sorted; no path at all is
\* an error
VideoExtract ==
    /\ pc = "v_extract"
    /\ \/ /\ \E why \in {"Failed to extract frames", "Frame extraction failed",
                         "read_dir"} : Return(Err(why))
          /\ UNCHANGED <<frame_paths, images, next_frame>>
       \/ /\ frame_paths' \in VideoFrameLists
          /\ IF frame_paths' = <<>>
             THEN /\ Return(Err("No frames extracted"))
                  /\ UNCHANGED <<images, next_frame>>
             ELSE /\ pc' = "v_load"
                  /\ images' = <<>>
                  /\ next_frame' = 0
                  /\ UNCHANGED outcome
    /\ UNCHANGED <<fnVars, appVars, duration, user_stopped, ffmpeg_process, mode, max_scrolls,
                   overlap, previous_capture, current_capture, scroll_count,
                   scrolls_issued, captures_done, observed, guiVars>>

\* mutation: a frame is compared with the frame extracted just before it
VideoLoadFrame_previousextracted ==
    /\ pc = "v_load"
    /\ IF next_frame >= Len(frame_paths)
       THEN /\ pc' = "v_stitch"
            /\ UNCHANGED <<images, next_frame, outcome>>
       ELSE \/ /\ Return(Err("image::open"))
               /\ UNCHANGED <<images, next_frame>>
            \/ /\ LET img == frame_paths[next_frame + 1]
                  IN  IF next_frame > 0
                      THEN LET cmp == images_are_similar(frame_paths[next_frame], img,
                                                         overlap)
                           IN  images' = IF ~cmp.similar THEN Append(images, img)
                                         ELSE images
                      ELSE images' = Append(images, img)
               /\ next_frame' = next_frame + 1
               /\ UNCHANGED <<pc, outcome>>
    /\ UNCHANGED <<fnVars, appVars, duration, user_stopped, ffmpeg_process, frame_paths, mode,
                   max_scrolls, overlap, previous_capture, current_capture,
                   scroll_count, scrolls_issued, captures_done, observed, guiVars>>

\* lib.rs:681-696: one round of the loading loop: the frame is decoded
\* (`?`), the first frame is kept, a later one is kept unless its top band
\* is similar to the bottom band of the last kept frame
VideoLoadFrame ==
    /\ pc = "v_load"
    /\ IF next_frame >= Len(frame_paths)
       THEN /\ pc' = "v_stitch"
            /\ UNCHANGED <<images, next_frame, outcome>>
       ELSE \/ /\ Return(Err("image::open"))
               /\ UNCHANGED <<images, next_frame>>
            \/ /\ LET img == frame_paths[next_frame + 1]
                  IN  IF next_frame > 0
                      THEN LET cmp == images_are_similar(images[Len(images)], img,
                                                         overlap)
                           IN  images' = IF ~cmp.similar THEN Append(images, img)
                                         ELSE images
                      ELSE images' = Append(images, img)
               /\ next_frame' = next_frame + 1
               /\ UNCHANGED <<pc, outcome>>
    /\ UNCHANGED <<fnVars, appVars, duration, user_stopped, ffmpeg_process, frame_paths, mode,
                   max_scrolls, overlap, previous_capture, current_capture,
                   scroll_count, scrolls_issued, captures_done, observed, guiVars>>

\* lib.rs:698-711: the kept frames are stitched, the temporary files removed
\* and the raster returned
VideoStitch ==
    /\ pc = "v_stitch"
    /\ LET result == stitch_images(images, overlap, build)
       IN  IF result.kind = "image"
           THEN Return(Ok(result.image))
           ELSE Crash(result.kind)
    /\ UNCHANGED <<fnVars, videoVars, appVars, mode, max_scrolls, overlap, images,
                   previous_capture, current_capture, scroll_count,
                   scrolls_issued, captures_done, observed, guiVars>>

Next ==
    \/ Begin \/ SeedCapture \/ StopFlagCheck \/ LoopTop \/ ScrollDown \/ Settle
    \/ Capture \/ Compare \/ PollKey \/ DrainEvents \/ Stitch
    \/ StartCapture \/ StopCapture
    \/ RunCaptureEntry \/ CountdownCheck \/ CountdownSleep \/ RunCaptureSetup
    \/ RunCaptureAfterLoop \/ SaveImage \/ WorkerClearRunning \/ WorkerSetStatus
    \/ VideoBegin \/ VideoSpawn \/ VideoLoopTop \/ VideoScroll \/ VideoPoll
    \/ VideoStopRecording \/ VideoExtract \/ VideoLoadFrame \/ VideoStitch

Spec == Init /\ [][Next]_vars

(***************************************************************************)
(* The command line's screenshot loop: ScreenCapture::capture_with_scroll  *)
(* of the binary, main.rs:761-869, with its own images_are_similar         *)
(* (main.rs:458-508, the text of lib.rs:403-453) and stitch_images         *)
(* (main.rs:510-538).  mode = "cli"; max_scrolls is a usize there and is   *)
(* kept as Some(n).                                                        *)
(***************************************************************************)
cliFrame == <<fnVars, videoVars, appVars, mode, max_scrolls, overlap, guiVars>>

\* main.rs:771-805: the start delay and the resolution of the crop region
CliBegin ==
    /\ pc = "c_start"
    /\ pc' = "c_seed"
    /\ UNCHANGED <<cliFrame, images, previous_capture, current_capture, scroll_count,
                   outcome, scrolls_issued, captures_done, observed>>

\* main.rs:807-817
CliSeedCapture ==
    /\ pc = "c_seed"
    /\ captures_done' = captures_done + 1
    /\ \/ /\ Return(Err("capture_screen"))
          /\ UNCHANGED <<images, previous_capture, scroll_count>>
       \/ \E first_capture \in ScreenFrames :
             /\ images' = <<first_capture>>
             /\ previous_capture' = first_capture
             /\ scroll_count' = 0
             /\ pc' = "c_top"
             /\ UNCHANGED outcome
    /\ UNCHANGED <<cliFrame, current_capture, scrolls_issued, observed>>

\* main.rs:819: while scroll_count < max_scrolls
CliLoopTop ==
    /\ pc = "c_top"
    /\ pc' = IF scroll_count < max_scrolls[1] THEN "c_scroll" ELSE "c_drain"
    /\ UNCHANGED <<cliFrame, images, previous_capture, current_capture, scroll_count,
                   outcome, scrolls_issued, captures_done, observed>>

\* main.rs:826
CliScrollDown ==
    /\ pc = "c_scroll"
    /\ \/ /\ Return(Err("scroll_down"))
          /\ UNCHANGED scrolls_issued
       \/ /\ scrolls_issued' = scrolls_issued + 1
          /\ pc' = "c_settle"
          /\ UNCHANGED outcome
    /\ UNCHANGED <<cliFrame, images, previous_capture, current_capture, scroll_count,
                   captures_done, observed>>

\* main.rs:829
CliSettle ==
    /\ pc = "c_settle"
    /\ pc' = "c_capture"
    /\ UNCHANGED <<cliFrame, images, previous_capture, current_capture, scroll_count,
                   outcome, scrolls_issued, captures_done, observed>>

\* main.rs:831
CliCapture ==
    /\ pc = "c_capture"
    /\ captures_done' = captures_done + 1
    /\ \/ /\ Return(Err("capture_screen"))
          /\ UNCHANGED current_capture
       \/ /\ current_capture' \in ScreenFrames
          /\ pc' = "c_compare"
          /\ UNCHANGED outcome
    /\ UNCHANGED <<cliFrame, images, previous_capture, scroll_count, scrolls_issued,
                   observed>>

\* main.rs:834-844: the overlap comparison; `break` on similar, else the
\* frame is appended and counted
CliCompare ==
    /\ pc = "c_compare"
    /\ LET is_similar ==
               images_are_similar(previous_capture, current_capture, overlap).similar
       IN  IF is_similar
           THEN /\ pc' = "c_drain"
                /\ UNCHANGED <<images, previous_capture, scroll_count>>
           ELSE /\ images' = Append(images, current_capture)
                /\ previous_capture' = current_capture
                /\ scroll_count' = scroll_count + 1
                /\ pc' = "c_poll"
    /\ UNCHANGED <<cliFrame, current_capture, outcome, scrolls_issued, captures_done,
                   observed>>

\* main.rs:846-861
CliPollKey ==
    /\ pc = "c_poll"
    /\ \/ /\ Return(Err("poll"))
          /\ UNCHANGED observed
       \/ \E key \in {"none", "q", "other"} :
             /\ IF key = "q"
                THEN observed' = "key" /\ pc' = "c_drain"
                ELSE UNCHANGED observed /\ pc' = "c_top"
             /\ UNCHANGED outcome
    /\ UNCHANGED <<cliFrame, images, previous_capture, current_capture, scroll_count,
                   scrolls_issued, captures_done>>

\* main.rs:864-866
CliDrainEvents ==
    /\ pc = "c_drain"
    /\ \/ Return(Err("poll"))
       \/ pc' = "c_stitch" /\ UNCHANGED outcome
    /\ UNCHANGED <<cliFrame, images, previous_capture, current_capture, scroll_count,
                   scrolls_issued, captures_done, observed>>

\* main.rs:868-876
CliStitch ==
    /\ pc = "c_stitch"
    /\ LET result == cli_stitch_images(images, overlap, build)
       IN  IF result.kind = "image"
           THEN Return(Ok(result.image))
           ELSE Crash(result.kind)
    /\ UNCHANGED <<cliFrame, images, previous_capture, current_capture, scroll_count,
                   scrolls_issued, captures_done, observed>>

\* ---- SpecLoop: the two screenshot loops, the library's capture_with_scroll
\* and the command line's, each alone on its thread, with the thread never
\* halting and every external call returning: a step of the function that
\* can be taken is taken
LoopInit ==
    /\ build \in {"debug", "release"}
    /\ op = "none" /\ arg = NoneVal /\ arg_images = <<>> /\ arg_overlap = 0
    /\ ret = NoneVal
    /\ mode \in {"lib", "cli"}
    /\ pc = IF mode = "lib" THEN "start" ELSE "c_start"
    /\ max_scrolls \in IF mode = "cli" THEN {Some(n) : n \in 0 .. MaxScrollLimit}
                       ELSE {NoLimit} \cup {Some(n) : n \in 0 .. MaxScrollLimit}
    /\ overlap \in SessionOverlaps
    /\ images = <<>> /\ previous_capture = NoneVal /\ current_capture = NoneVal
    /\ scroll_count = 0 /\ outcome = NoResult /\ scrolls_issued = 0
    /\ captures_done = 0 /\ observed = "none"
    /\ should_stop = FALSE /\ is_running = FALSE /\ status = "Idle"
    /\ remaining = 0 /\ saved = FALSE /\ run_result = NoResult /\ stop_at = "never"
    /\ duration = 0 /\ user_stopped = FALSE /\ ffmpeg_process = <<>>
    /\ frame_paths = <<>> /\ next_frame = 0
    /\ ui_frame = None /\ workers = <<>> /\ stop_calls = {}

LoopNext ==
    \/ Begin \/ SeedCapture \/ LoopTop \/ ScrollDown \/ Settle
    \/ Capture \/ Compare \/ PollKey \/ DrainEvents \/ Stitch
    \/ CliBegin \/ CliSeedCapture \/ CliLoopTop \/ CliScrollDown \/ CliSettle
    \/ CliCapture \/ CliCompare \/ CliPollKey \/ CliDrainEvents \/ CliStitch

SpecLoop == LoopInit /\ [][LoopNext]_vars /\ WF_vars(LoopNext)

(***************************************************************************)
(* The GUI over several sessions (SpecApp): CaptureApp, gui.rs:228-265 and *)
(* 421-437.  The UI thread renders frame after frame; each click on Start  *)
(* spawns a worker thread.  What run_capture does inside is in Spec; here  *)
(* a worker is in run_capture until it returns a result or panics.         *)
(***************************************************************************)
Worker(at, result) == [at |-> at, result |-> result]

\* workers that have been spawned and have not yet come back from run_capture
Capturing == {k \in DOMAIN workers : workers[k].at \in {"spawned", "run_capture"}}

AppInit ==
    /\ build = "debug"
    /\ op = "none" /\ arg = NoneVal /\ arg_images = <<>> /\ arg_overlap = 0
    /\ ret = NoneVal
    /\ mode = "app" /\ pc = "unused" /\ max_scrolls = NoLimit /\ overlap = 0
    /\ images = <<>> /\ previous_capture = NoneVal /\ current_capture = NoneVal
    /\ scroll_count = 0 /\ outcome = NoResult /\ scrolls_issued = 0
    /\ captures_done = 0 /\ observed = "none"
    /\ remaining = 0 /\ saved = FALSE /\ run_result = NoResult /\ stop_at = "never"
    /\ duration = 0 /\ user_stopped = FALSE /\ ffmpeg_process = <<>>
    /\ frame_paths = <<>> /\ next_frame = 0
    \* CaptureApp::default, gui.rs:102-119
    /\ status = "Idle"
    /\ is_running = FALSE
    /\ should_stop = FALSE
    /\ ui_frame = None
    /\ workers = <<>>
    /\ stop_calls = {}

appFrame == <<fnVars, loopVars, videoVars, remaining, saved, run_result, stop_at>>

\* gui.rs:422: a frame begins and reads is_running
AppRender ==
    /\ ui_frame = None
    /\ ui_frame' = Some(is_running)
    /\ UNCHANGED <<appFrame, stop_calls, status, is_running, should_stop, workers>>

\* mutation: start_capture does not set is_running
AppStartCapture_norunning ==
    /\ ui_frame = Some(FALSE)
    /\ Len(workers) < MaxStarts
    /\ should_stop' = FALSE
    /\ status' = "Running"
    /\ workers' = Append(workers, Worker("spawned", "none"))
    /\ ui_frame' = None
    /\ UNCHANGED <<appFrame, is_running, stop_calls>>

\* mutation: start_capture does not reset should_stop
AppStartCapture_noreset ==
    /\ ui_frame = Some(FALSE)
    /\ Len(workers) < MaxStarts
    /\ is_running' = TRUE
    /\ status' = "Running"
    /\ workers' = Append(workers, Worker("spawned", "none"))
    /\ ui_frame' = None
    /\ UNCHANGED <<appFrame, stop_calls, should_stop>>

\* gui.rs:423-429: the Start button, enabled when the frame read is_running
\* = false, is clicked; start_capture, gui.rs:228-261, sets the flags and
\* the status and then spawns the worker thread
AppStartCapture ==
    /\ ui_frame = Some(FALSE)
    /\ Len(workers) < MaxStarts
    /\ is_running' = TRUE
    /\ should_stop' = FALSE
    /\ status' = "Running"
    /\ workers' = Append(workers, Worker("spawned", "none"))
    /\ ui_frame' = None
    /\ UNCHANGED <<appFrame, stop_calls>>

\* gui.rs:431-436: the Stop button, enabled when the frame read is_running
\* = true, is clicked; stop_capture, gui.rs:263-265
AppStopCapture ==
    /\ ui_frame = Some(TRUE)
    /\ should_stop' = TRUE
    /\ stop_calls' = stop_calls \cup {Len(workers)}
    /\ ui_frame' = None
    /\ UNCHANGED <<appFrame, status, is_running, workers>>

\* the frame ends without a click on either button
AppFrameEnd ==
    /\ ui_frame # None
    /\ ui_frame' = None
    /\ UNCHANGED <<appFrame, stop_calls, status, is_running, should_stop, workers>>

\* gui.rs:243-245: the spawned thread starts and calls run_capture
AppWorkerEnter ==
    \E k \in DOMAIN workers :
        /\ workers[k].at = "spawned"
        /\ workers' = [workers EXCEPT ![k].at = "run_capture"]
        /\ UNCHANGED <<appFrame, stop_calls, status, is_running, should_stop, ui_frame>>

\* gui.rs:283, 317, 357: run_capture publishes its progress
AppWorkerProgress ==
    \E k \in DOMAIN workers :
        /\ workers[k].at = "run_capture"
        /\ status' = "Running"
        /\ UNCHANGED <<appFrame, stop_calls, is_running, should_stop, ui_frame, workers>>

\* gui.rs:289-291 and the stop flag test of capture_with_scroll_with_stop:
\* the worker reads should_stop, finds it set and returns the cancellation
AppWorkerObserveStop ==
    \E k \in DOMAIN workers :
        /\ workers[k].at = "run_capture"
        /\ should_stop
        /\ workers' = [workers EXCEPT ![k] = Worker("returned", "Cancelled")]
        /\ UNCHANGED <<appFrame, stop_calls, status, is_running, should_stop, ui_frame>>

\* gui.rs:245: run_capture returns Ok(output_path) or Err
AppWorkerReturn ==
    \E k \in DOMAIN workers : \E result \in {"Ok", "Err"} :
        /\ workers[k].at = "run_capture"
        /\ workers' = [workers EXCEPT ![k] = Worker("returned", result)]
        /\ UNCHANGED <<appFrame, stop_calls, status, is_running, should_stop, ui_frame>>

\* a panic inside run_capture unwinds the worker thread: the rest of the
\* closure, gui.rs:248-259, does not run
AppWorkerPanic ==
    \E k \in DOMAIN workers :
        /\ workers[k].at = "run_capture"
        /\ workers' = [workers EXCEPT ![k].at = "panicked"]
        /\ UNCHANGED <<appFrame, stop_calls, status, is_running, should_stop, ui_frame>>

\* gui.rs:248: *is_running.lock().unwrap() = false
AppWorkerClearRunning ==
    \E k \in DOMAIN workers :
        /\ workers[k].at = "returned"
        /\ is_running' = FALSE
        /\ workers' = [workers EXCEPT ![k].at = "cleared"]
        /\ UNCHANGED <<appFrame, stop_calls, status, should_stop, ui_frame>>

\* gui.rs:250-259: the final status, then the thread ends
AppWorkerSetStatus ==
    \E k \in DOMAIN workers :
        /\ workers[k].at = "cleared"
        /\ status' = IF workers[k].result = "Ok" THEN "Completed" ELSE "Error"
        /\ workers' = [workers EXCEPT ![k].at = "ended"]
        /\ UNCHANGED <<appFrame, stop_calls, is_running, should_stop, ui_frame>>

AppNext ==
    \/ AppRender \/ AppStartCapture \/ AppStopCapture \/ AppFrameEnd
    \/ AppWorkerEnter \/ AppWorkerProgress \/ AppWorkerObserveStop
    \/ AppWorkerReturn \/ AppWorkerPanic
    \/ AppWorkerClearRunning \/ AppWorkerSetStatus

SpecApp == AppInit /\ [][AppNext]_vars

(***************************************************************************)
(* Properties of the session (Spec)                                        *)
(***************************************************************************)
LoopLeft == {"drain", "stitch", "done", "errored", "crashed", "g_returned",
             "g_save", "g_exit", "g_status", "finished"}

C1_BreakStep ==
    (pc = "compare" /\ pc' # pc
        /\ images_are_identical(previous_capture, current_capture).identical)
    => (pc' = AfterLoop /\ images' = images /\ scroll_count' = scroll_count)

C1_LeftForGood ==
    pc \in LoopLeft
    => (pc' \in LoopLeft /\ images' = images /\ scroll_count' = scroll_count
        /\ scrolls_issued' = scrolls_issued /\ captures_done' = captures_done)

\* C1: in the screenshot loop, when the identity comparison of the previous
\* and the new frame reports identical, the loop is left in that iteration:
\* the new frame is not appended, scroll_count is not incremented, and
\* nothing scrolls or captures afterwards.
C1_IdenticalLeavesLoop ==
    [][C1_BreakStep]_vars /\ [][C1_LeftForGood]_vars

\* C1 witness: the loop was left by an identical pair after one frame had
\* been appended: two frames, two scrolls issued, one counted
C1_Witness ==
    /\ pc = AfterLoop /\ observed = "none" /\ max_scrolls = NoLimit
    /\ current_capture = previous_capture
    /\ Len(images) = 2 /\ scroll_count = 1 /\ scrolls_issued = 2

C2_LimitInv ==
    max_scrolls # NoLimit =>
        /\ scrolls_issued <= max_scrolls[1]
        /\ scroll_count <= max_scrolls[1]
        /\ Len(images) <= max_scrolls[1] + 1
        /\ max_scrolls[1] = 0 =>
              /\ scrolls_issued = 0
              /\ (pc \in LoopLeft /\ captures_done > 0 /\ outcome.kind # "Err")
                    => images = <<previous_capture>>

C2_LimitStep ==
    (max_scrolls # NoLimit /\ pc = "top" /\ pc' # pc
        /\ scroll_count >= max_scrolls[1])
    => (pc' = AfterLoop /\ scrolls_issued' = scrolls_issued)

\* C2: with a configured limit M (0 included) the loop issues at most M
\* scroll inputs and accumulates at most M + 1 frames for the stitcher; once
\* M scrolls are counted the top of the loop leaves for stitching whatever
\* the last comparison said; with M = 0 nothing is scrolled and the frame
\* list is exactly the first capture.
C2_ScrollLimit ==
    []C2_LimitInv /\ [][C2_LimitStep]_vars

\* C2 witness: the limit of two scrolls ended the loop after two frames that
\* both differed from their predecessor
C2_Witness ==
    /\ max_scrolls = Some(2) /\ pc = AfterLoop /\ observed = "none"
    /\ scroll_count = 2 /\ scrolls_issued = 2 /\ Len(images) = 3
    /\ current_capture # images[2]

\* C3: once the loop has observed a stop request (the shared flag, or the
\* user's stop key), the session does not end in success: no stitched raster
\* is returned to the caller and none is saved.
C3_StopObservedNoRaster ==
    observed # "none" => (outcome.kind # "Ok" /\ ~saved)

\* C4: if stop_capture runs at any moment of the worker's countdown, the
\* session is cancelled before the first capture: no screen capture, no
\* scroll input, no save, and run_capture returns a cancellation error.
C4_StopInCountdownPreventsCapture ==
    stop_at \in {"cd_check", "cd_sleep"} =>
        /\ captures_done = 0
        /\ scrolls_issued = 0
        /\ ~saved
        /\ run_result.kind \in {"None", "Err", "Cancelled"}

C14_FramesInv ==
    /\ pc \in {"stitch", "v_stitch"} => Len(images) >= 1
    /\ outcome.kind = "Ok" => Len(images) >= 1

C14_ExtractStep ==
    (pc = "v_extract" /\ pc' # pc) =>
        /\ pc' = "v_load" => Len(frame_paths') >= 1
        /\ pc' # "v_load" => (pc' = "errored" /\ outcome'.kind = "Err")

\* C14: a session whose stitcher would receive an empty frame sequence ends
\* with an error returned to the caller (the video path with no extracted
\* frame), never with a raster: the frame list given to the stitcher by the
\* screenshot loop and by the video path after deduplication has at least
\* one frame, and so has the list behind every successful result.
C14_NoEmptyFrameSequence ==
    []C14_FramesInv /\ [][C14_ExtractStep]_vars

\* C14 witness: the extraction of a video session left no frame and the
\* session returned the error for it
C14_Witness ==
    /\ mode = "video" /\ pc = "errored" /\ frame_paths = <<>>
    /\ outcome = Err("No frames extracted")

AcquisitionFailed ==
    outcome.kind = "Err" /\ outcome.why \in {"capture_screen", "scroll_down"}

C20_FailedInv ==
    AcquisitionFailed =>
        /\ pc \in {"errored", "g_returned", "g_exit", "g_status", "finished"}
        /\ ~saved
        /\ run_result.kind # "Ok"

C20_FailStep ==
    (pc \in {"seed", "scroll", "capture"} /\ pc' # pc /\ outcome'.kind = "Err") =>
        /\ pc' \in {"errored", "g_returned"}
        /\ images' = images /\ scrolls_issued' = scrolls_issued

C20_AfterFail ==
    AcquisitionFailed =>
        /\ outcome' = outcome
        /\ images' = images
        /\ scrolls_issued' = scrolls_issued
        /\ captures_done' = captures_done

\* C20: when capture_screen or scroll_down fails in the screenshot loop, at
\* the seed capture or in any later iteration, the session ends in error at
\* once: the operation is not tried again, nothing scrolls or captures
\* afterwards, the stitcher is not reached and no raster is returned or
\* saved, whatever frames had been accumulated.
C20_FailureAbortsSession ==
    []C20_FailedInv /\ [][C20_FailStep]_vars /\ [][C20_AfterFail]_vars

\* C20 witness: the third capture of a library session failed after two
\* frames had been accumulated
C20_Witness ==
    /\ mode = "lib" /\ pc = "errored" /\ outcome = Err("capture_screen")
    /\ Len(images) = 2 /\ captures_done = 3 /\ scrolls_issued = 2

\* positions of the recording phase: the recorder has been spawned and the
\* function has not yet gone past lib.rs:643
Recording == {"v_top", "v_scroll", "v_poll", "v_drain"}

\* C21: in a video session the recorder is spawned at most once and nothing
\* but the graceful stop and the wait is ever done to it (no kill); on every
\* path that leaves the recording phase after the spawn (duration elapsed,
\* user stop, failure of scroll injection or of key polling) it has been
\* sent q and then waited for.  (Stated for the paths that return; a panic
\* after the spawn is left aside.)
C21_RecorderStoppedGracefully ==
    /\ ffmpeg_process \in {<<>>, <<"spawn">>, <<"spawn", "q", "wait">>}
    /\ (ffmpeg_process # <<>> /\ pc \notin Recording /\ outcome.kind # "Crashed") =>
          ffmpeg_process = <<"spawn", "q", "wait">>

\* overlap-similarity with the threshold fraction 0, said without the scan:
\* the overlap is below the height and the bottom h rows of a are the top h
\* rows of b
OverlapSimilar(a, b, h) ==
    /\ SameDims(a, b)
    /\ h < a.height
    /\ \A x \in 0 .. a.width - 1 : \A y \in 0 .. h - 1 :
          a.px[<<x, a.height - h + y>>] = b.px[<<x, y>>]

\* of the first n frames, those that are first or not overlap-similar to the
\* frame extracted just before them
RECURSIVE PairwiseKept(_, _, _)
PairwiseKept(frames, n, h) ==
    IF n = 0 THEN <<>>
    ELSE LET rest == PairwiseKept(frames, n - 1, h)
         IN  IF n = 1 \/ ~OverlapSimilar(frames[n - 1], frames[n], h)
             THEN Append(rest, frames[n])
             ELSE rest

\* of the first n frames, those that are first or not overlap-similar to the
\* last frame kept before them
RECURSIVE LastKeptKept(_, _, _)
LastKeptKept(frames, n, h) ==
    IF n = 0 THEN <<>>
    ELSE LET rest == LastKeptKept(frames, n - 1, h)
         IN  IF n = 1 \/ ~OverlapSimilar(rest[Len(rest)], frames[n], h)
             THEN Append(rest, frames[n])
             ELSE rest

Loading == {"v_load", "v_stitch"}

\* C22 as stated: the kept frames of the video path are the first extracted
\* frame and every extracted frame k >= 1 that is not overlap-similar to
\* extracted frame k - 1.
C22_PairwiseOverExtracted ==
    pc \in Loading => images = PairwiseKept(frame_paths, next_frame, overlap)

\* C22 amended: each extracted frame is compared with the last frame kept so
\* far (which is extracted frame k - 1 only when that one was kept), and is
\* kept exactly when it is not overlap-similar to it; the first extracted
\* frame is always kept.
C22_AgainstLastKept ==
    pc \in Loading =>
        /\ images = LastKeptKept(frame_paths, next_frame, overlap)
        /\ next_frame >= 1 => images[1] = frame_paths[1]

\* C22 witness: three frames were extracted, the second was dropped, and
\* the third was dropped against the first although it is not
\* overlap-similar to the second
C22_Witness ==
    /\ pc = "v_stitch" /\ Len(frame_paths) = 3 /\ next_frame = 3
    /\ images = <<frame_paths[1]>>
    /\ OverlapSimilar(frame_paths[1], frame_paths[2], overlap)
    /\ ~OverlapSimilar(frame_paths[2], frame_paths[3], overlap)

AdjacentIdentical(frames) ==
    \E k \in 1 .. Len(frames) - 1 : frames[k] = frames[k + 1]

\* C23: the frame sequence handed to the stitcher never holds two adjacent
\* pixel-identical rasters, in the screenshot loop and, after
\* deduplication, in the video path.
C23_NoAdjacentIdenticalFrames ==
    pc \in {"stitch", "v_stitch"} => ~AdjacentIdentical(images)

\* a is b with some elements left out, the others in their order
RECURSIVE IsSubsequence(_, _)
IsSubsequence(a, b) ==
    IF a = <<>> THEN TRUE
    ELSE IF b = <<>> THEN FALSE
    ELSE IF Head(a) = Head(b) THEN IsSubsequence(Tail(a), Tail(b))
    ELSE IsSubsequence(a, Tail(b))

\* the frame list changes only by taking the frame just acquired at its end
C24_AppendStep ==
    images' # images =>
        \/ pc = "seed" /\ images = <<>> /\ images' = <<previous_capture'>>
        \/ pc = "compare" /\ images' = Append(images, current_capture)
        \/ /\ pc = "v_load" /\ next_frame' = next_frame + 1
           /\ images' = Append(images, frame_paths[next_frame + 1])

C24_KeptInOrder ==
    pc \in Loading => IsSubsequence(images, SubSeq(frame_paths, 1, next_frame))

\* index of the frame whose row is in output row `row` at the end: the
\* frame of the last write to that row, -1 if the row was never written
RowSource(writes, row) ==
    LET ks == {k \in DOMAIN writes : writes[k][3] = row}
    IN  IF ks = {} THEN 0 - 1
        ELSE writes[CHOOSE k \in ks : \A j \in ks : j <= k][1]

C24_StitchOrder ==
    pc \in {"stitch", "v_stitch"} =>
        LET r == stitch_images(images, overlap, build)
            H == images[1].height
        IN  r.kind = "image" =>
              /\ \A k \in DOMAIN r.writes :
                    r.writes[k][3] = r.writes[k][1] * (H - overlap) + r.writes[k][2]
              /\ \A r1, r2 \in 0 .. r.image.height - 1 :
                    r1 < r2 => RowSource(r.writes, r1) <= RowSource(r.writes, r2)

\* C24: frames are appended to the frame list in the order they are
\* acquired (in the video path the kept frames are the extracted frames
\* with some left out, the others in their order), and when the stitcher
\* returns a raster it has put every row y it copies from frame i at output
\* row i * (H - h) + y, so that from top to bottom of the output the frame
\* a row comes from never goes back to an earlier one.
C24_FrameOrderPreserved ==
    [][C24_AppendStep]_vars /\ []C24_KeptInOrder /\ []C24_StitchOrder

\* C24 witness: three frames are about to be stitched with overlap 1; the
\* four output rows come from frames 0, 1, 2, 2
C24_Witness ==
    /\ pc = "stitch" /\ mode = "lib" /\ Len(images) = 3 /\ overlap = 1
    /\ LET r == stitch_images(images, overlap, build)
       IN  /\ r.kind = "image" /\ r.image.height = 4
           /\ [row \in 0 .. 3 |-> RowSource(r.writes, row)]
                 = [row \in 0 .. 3 |-> IF row = 3 THEN 2 ELSE row]

\* the capture loop or the save came back with an error or a cancellation
SessionFailed ==
    \/ outcome.kind \in {"Err", "Cancelled"}
    \/ run_result.kind = "Err"

\* the output file is written only at the save, after the loop returned a
\* raster
C34_SaveStep ==
    (saved' /\ ~saved) =>
        /\ pc = "g_save" /\ outcome.kind = "Ok"
        /\ run_result' = Ok("output_path")

C34_StatusInv ==
    mode = "gui" =>
        /\ status = "Completed" => (saved /\ outcome.kind = "Ok" /\ run_result.kind = "Ok")
        /\ SessionFailed => (~saved /\ status # "Completed")
        /\ (SessionFailed /\ pc = "finished") => status = "Error"

\* a failed session goes on to its Error status and stays failed
C34_FailedStep ==
    (mode = "gui" /\ SessionFailed) =>
        /\ SessionFailed'
        /\ status' # status => (pc = "g_status" /\ status' = "Error")

\* C34: in the GUI worker the output image is saved only after the capture
\* loop has returned a raster, and the status becomes Completed only after
\* the save has succeeded; whenever the capture loop or the save returns an
\* error or a cancellation, no Completed status is ever published for that
\* session and the status ends as Error.
C34_CompletedOnlyAfterSave ==
    /\ [][C34_SaveStep]_vars
    /\ []C34_StatusInv
    /\ [][C34_FailedStep]_vars

\* C34 witness: the loop returned a raster, the save failed, and the session
\* ended with the Error status
C34_Witness ==
    /\ mode = "gui" /\ pc = "finished"
    /\ outcome.kind = "Ok" /\ run_result = Err("save")
    /\ ~saved /\ status = "Error"

\* every two extracted frames are similar when the band is empty
C37_EmptyBandSimilar ==
    (mode = "video" /\ overlap = 0) =>
        \A i, j \in DOMAIN frame_paths :
            LET cmp == images_are_similar(frame_paths[i], frame_paths[j], 0)
            IN  cmp.similar /\ cmp.reads = 0 /\ ~cmp.panic

\* the frames kept so far: the first extracted frame and nothing else
C37_OnlyFirstKept ==
    (mode = "video" /\ overlap = 0 /\ frame_paths # <<>>) =>
        /\ next_frame >= 1 => images = <<frame_paths[1]>>
        /\ outcome.kind = "Ok" => outcome.value = frame_paths[1]

\* C37: with overlap height h = 0, overlap-similarity reports similar = true
\* for every pair of equal-size rasters, so video-mode deduplication with
\* overlap 0 keeps only the first extracted frame however different the
\* later frames are.
C37_ZeroOverlapKeepsFirstFrame ==
    C37_EmptyBandSimilar /\ C37_OnlyFirstKept

\* C37 witness: overlap 0, three extracted frames that differ from one
\* another, all loaded, one kept
C37_Witness ==
    /\ mode = "video" /\ overlap = 0 /\ pc = "v_stitch"
    /\ Len(frame_paths) = 3 /\ next_frame = 3
    /\ frame_paths[1] # frame_paths[2] /\ frame_paths[2] # frame_paths[3]
    /\ frame_paths[1] # frame_paths[3]
    /\ images = <<frame_paths[1]>>

\* C39: in video mode the auto-scroll phase lasts max(duration - 2, 0)
\* seconds for every configured recording duration, including 0 and 1: the
\* unsigned subtraction duration - 2 never underflows into a failure or a
\* huge deadline.  (One round of the phase takes at least half a second.)
C39_ScrollPhaseNeverUnderflows ==
    mode = "video" =>
        /\ scrolls_issued <= 2 * Max(duration - 2, 0)
        /\ (duration < 2 /\ ffmpeg_process # <<>>) => pc # "crashed"

(***************************************************************************)
(* Properties of the screenshot loop running to its end (SpecLoop)         *)
(***************************************************************************)
\* Done: a raster was returned; Errored: an error was returned.  The
\* library function has no cancelled result.
Terminal == pc \in {"done", "errored"}

C25_TerminalInv ==
    /\ pc = "done" => (outcome.kind = "Ok" /\ outcome.value.height >= 0)
    /\ pc = "errored" => outcome.kind = "Err"

C25_TerminalStep ==
    Terminal =>
        /\ pc' = pc /\ outcome' = outcome /\ images' = images
        /\ captures_done' = captures_done /\ scrolls_issued' = scrolls_issued

\* C25: a screenshot session with a configured maximum scroll count, whose
\* external calls all return, eventually reaches Done (one raster returned)
\* or Errored (an error returned), one of them only, and from then on
\* nothing is captured, scrolled or stitched.
C25_ReachesTerminalState ==
    /\ (max_scrolls # NoLimit) => <>Terminal
    /\ []C25_TerminalInv
    /\ [][C25_TerminalStep]_vars

\* the library loop with max_scrolls = None
Unbounded == mode = "lib" /\ max_scrolls = NoLimit

\* the loop was left by `break` (identical captures or the Q key) or by an
\* error propagated with `?`
LeftEarly == pc = "drain" \/ (pc = "errored" /\ outcome.kind = "Err")

C29_StitchEntryStep ==
    (Unbounded /\ pc \notin {"drain", "stitch"} /\ pc' \in {"drain", "stitch"}) =>
        \/ pc = "compare" /\ previous_capture = current_capture
        \/ pc = "poll" /\ observed' = "key"

C29_TopStep ==
    (Unbounded /\ pc = "top" /\ pc' # pc) => pc' = "scroll"

\* from the top of iteration k the loop comes to the top of iteration k + 1,
\* one more scroll issued and one more capture taken, unless it is left
C29_NextIteration(k) ==
    (Unbounded /\ pc = "top" /\ scroll_count = k)
        ~> \/ /\ pc = "top" /\ scroll_count = k + 1
              /\ scrolls_issued = k + 1 /\ captures_done = k + 2
           \/ LeftEarly

\* C29: with no maximum scroll count configured, the screenshot loop
\* reaches Stitching only through identity detection or a stop request:
\* along any run in which no two consecutive captures are identical, no stop
\* is requested and no external call fails, the loop keeps scrolling and
\* capturing (here: through every iteration up to MaxIter).
C29_UnboundedLoopKeepsScrolling ==
    /\ [][C29_StitchEntryStep]_vars
    /\ [][C29_TopStep]_vars
    /\ \A k \in 0 .. MaxIter - 1 : C29_NextIteration(k)

\* C29 witness: no limit, MaxIter iterations done and the loop is at its
\* top again, never stopped
C29_Witness ==
    /\ Unbounded /\ pc = "top" /\ observed = "none"
    /\ scroll_count = MaxIter /\ scrolls_issued = MaxIter
    /\ captures_done = MaxIter + 1 /\ Len(images) = MaxIter + 1

\* positions of the two screenshot loops, by what is done there
AtScroll  == pc \in {"scroll", "c_scroll"}
AtSettle  == pc \in {"settle", "c_settle"}
AtCapture == pc \in {"capture", "c_capture"}
AtCompare == pc \in {"compare", "c_compare"}

\* a scroll input is issued only after the seed capture and only when no
\* scroll was issued since the last capture; it is followed by the settle
\* delay
C30_ScrollStep ==
    scrolls_issued' # scrolls_issued =>
        /\ AtScroll /\ AtSettle'
        /\ scrolls_issued' = scrolls_issued + 1
        /\ captures_done >= 1 /\ Len(images) >= 1
        /\ captures_done = scrolls_issued + 1

\* the settle delay is followed by the capture and comes after a scroll only
C30_SettleStep ==
    /\ (AtSettle /\ pc' # pc) => AtCapture'
    /\ (AtSettle' /\ pc' # pc) => AtScroll
    /\ (AtCapture' /\ pc' # pc) => AtSettle

\* a capture of the loop comes after exactly one scroll since the capture
\* before it, and the comparison comes next
C30_CaptureStep ==
    (captures_done' # captures_done /\ captures_done >= 1) =>
        /\ AtCapture
        /\ captures_done' = captures_done + 1
        /\ scrolls_issued = captures_done
        /\ pc' # pc => (AtCompare' \/ pc' = "errored")
        /\ AtCompare' => current_capture' \in ScreenFrames

\* the seed capture is taken before any scroll input
C30_SeedStep ==
    (captures_done' # captures_done /\ captures_done = 0) =>
        /\ pc \in {"seed", "c_seed"} /\ scrolls_issued = 0

\* at the comparison: the frames compared are the last appended one and the
\* capture taken after the latest scroll
C30_Operands ==
    AtCompare =>
        /\ Len(images) >= 1
        /\ previous_capture = images[Len(images)]
        /\ captures_done = scrolls_issued + 1
        /\ scrolls_issued = scroll_count + 1

\* what the comparison decides follows from those two frames
C30_CompareStep ==
    (AtCompare /\ pc' # pc) =>
        LET last == images[Len(images)]
            same == IF mode = "cli"
                    THEN images_are_similar(last, current_capture, overlap).similar
                    ELSE images_are_identical(last, current_capture).identical
        IN  /\ same => images' = images
            /\ ~same => /\ images' = Append(images, current_capture)
                        /\ previous_capture' = current_capture

\* C30: in the screenshot loop the seed capture happens before any scroll
\* input, and within every iteration the order is scroll input, settle
\* delay, capture, comparison; exactly one scroll input is issued between
\* any two consecutive captures, and every comparison is between the most
\* recently appended frame and the capture taken after the latest scroll.
C30_IterationOrder ==
    /\ [][C30_SeedStep]_vars
    /\ [][C30_ScrollStep]_vars
    /\ [][C30_SettleStep]_vars
    /\ [][C30_CaptureStep]_vars
    /\ []C30_Operands
    /\ [][C30_CompareStep]_vars

\* C30 witness: the library loop at its second comparison: two scrolls, three
\* captures, and the frame compared against is the one appended in the
\* first iteration, which differs from the seed
C30_Witness ==
    /\ mode = "lib" /\ pc = "compare"
    /\ scroll_count = 1 /\ scrolls_issued = 2 /\ captures_done = 3
    /\ Len(images) = 2 /\ previous_capture = images[2]
    /\ images[2] # images[1]

\* at the top of an iteration of the library's loop
C31_TopInv ==
    (mode = "lib" /\ pc = "top") =>
        /\ Len(images) = scroll_count + 1
        /\ previous_capture = images[Len(images)]
        /\ scrolls_issued = scroll_count

\* the count of scroll inputs is scroll_count or one more, everywhere in the
\* library's loop and after it
C31_CountInv ==
    (mode = "lib" /\ pc \notin {"start", "seed"}) =>
        /\ scrolls_issued \in {scroll_count, scroll_count + 1}
        /\ Len(images) >= 1 => Len(images) = scroll_count + 1

\* the loop is left with one scroll more than scroll_count exactly when it is
\* left by the identity test
C31_ExitStep ==
    (mode = "lib" /\ pc \in {"top", "compare", "poll"} /\ pc' = "drain") =>
        /\ scrolls_issued' = scrolls_issued /\ scroll_count' = scroll_count
        /\ (scrolls_issued = scroll_count + 1)
              <=> (pc = "compare" /\ previous_capture = current_capture)

\* C31: at the top of every iteration of the library's screenshot loop, the
\* number of accumulated frames equals scroll_count + 1 and previous_capture
\* equals the last accumulated frame; the number of scroll inputs issued so
\* far is scroll_count, or scroll_count + 1 only in the iteration that ends
\* the loop by identity detection.
C31_LoopInvariants ==
    /\ []C31_TopInv
    /\ []C31_CountInv
    /\ [][C31_ExitStep]_vars

\* C31 witness: the top of the third iteration, two frames appended to the
\* seed
C31_Witness ==
    /\ mode = "lib" /\ pc = "top" /\ scroll_count = 2
    /\ Len(images) = 3 /\ previous_capture = images[3] /\ scrolls_issued = 2

(***************************************************************************)
(* Properties of the GUI over several sessions (SpecApp)                   *)
(***************************************************************************)
C26_OneWorkerInv ==
    /\ Cardinality(Capturing) <= 1
    /\ Capturing # {} => is_running
    /\ ui_frame \in {None, Some(TRUE), Some(FALSE)}
    /\ (Capturing # {} /\ ui_frame = None) => ENABLED AppRender

C26_StartStep ==
    workers' # workers /\ Len(workers') # Len(workers) =>
        /\ ~is_running /\ is_running'
        /\ Capturing = {}
        /\ workers' = Append(workers, Worker("spawned", "none"))

C26_RunningStep ==
    (is_running /\ ~is_running') =>
        \E k \in DOMAIN workers :
            /\ workers[k].at = "returned" /\ workers'[k].at = "cleared"
            /\ Capturing' = {}

\* C26: at most one worker thread is in run_capture (or spawned and about
\* to call it) at any time, and the UI thread never is: it goes on rendering
\* frames meanwhile.  A worker is spawned only by a Start that finds
\* is_running false and has set it to true, and is_running is true as long
\* as that worker has not come back from run_capture; only the worker whose
\* run_capture has returned sets it to false.
C26_SingleWorker ==
    []C26_OneWorkerInv /\ [][C26_StartStep]_vars /\ [][C26_RunningStep]_vars

\* C26 witness: a second session is in run_capture while the thread of the
\* first, which has already set is_running to false, has not yet written
\* its final status
C26_Witness ==
    /\ Len(workers) = 2
    /\ workers[1].at = "cleared" /\ workers[2].at = "run_capture"
    /\ is_running

C27_CompareStep ==
    (pc \in {"compare", "c_compare"} /\ pc' # pc) =>
        IF previous_capture = current_capture
        THEN /\ pc' \in {"drain", "c_drain"}
             /\ images' = images
        ELSE /\ pc' \in {"poll", "c_poll"}
             /\ images' = Append(images, current_capture)

\* C27: in the library's screenshot loop and in the command line's, the
\* end-of-content test is the exact equality of the previous and the new
\* capture: the loop is left when they are equal, and a new capture that
\* differs from the previous one in any pixel is appended and the loop goes
\* on.
C27_IdentityEndsEveryLoop ==
    [][C27_CompareStep]_vars

\* while a session runs, the status cell shows Running
C32_RunningInv ==
    is_running => status = "Running"

\* the worker that publishes a final status is the one of the latest session
C32_FinalStatusStep ==
    \A k \in DOMAIN workers :
        (workers[k].at = "cleared" /\ workers'[k].at = "ended") => k = Len(workers)

\* C32: under every interleaving of the UI thread and worker threads, while
\* is_running is true the shared status is Running(...), and the final
\* Completed/Error status written by a finished session is never written
\* over the status of a session started after it.
C32_StatusFollowsRunning ==
    /\ []C32_RunningInv
    /\ [][C32_FinalStatusStep]_vars

\* start_capture leaves should_stop false when it spawns the worker
C33_StartStep ==
    Len(workers') > Len(workers) =>
        /\ should_stop' = FALSE
        /\ workers'[Len(workers')].at = "spawned"

\* should_stop is set only by stop_capture, on the UI thread
C33_StopStep ==
    (should_stop' /\ ~should_stop) =>
        /\ ui_frame = Some(TRUE) /\ workers' = workers
        /\ stop_calls' = stop_calls \cup {Len(workers)}

\* a worker that finds should_stop set belongs to a session during which
\* stop_capture was called
C33_ObserveStep ==
    \A k \in DOMAIN workers :
        (workers[k].at = "run_capture" /\ workers'[k].result = "Cancelled") =>
            /\ should_stop
            /\ k \in stop_calls

\* C33: a stop request made during one GUI session never cancels a later
\* session: start_capture resets should_stop to false before the new worker
\* is spawned, and under every interleaving the new worker observes
\* should_stop = true only if stop_capture was called after that start.
C33_StopDoesNotOutliveSession ==
    /\ [][C33_StartStep]_vars
    /\ [][C33_StopStep]_vars
    /\ [][C33_ObserveStep]_vars

\* C33 witness: stop_capture was called during the first session and not
\* during the second, whose worker has passed run_capture without a
\* cancellation
C33_Witness ==
    /\ Len(workers) = 2 /\ stop_calls = {1}
    /\ workers[1].result = "Cancelled"
    /\ workers[2].at = "returned" /\ workers[2].result = "Ok"

(***************************************************************************)
(* Properties of the comparators (SpecCmp)                                 *)
(***************************************************************************)
A1 == arg_images[1]
A2 == arg_images[2]
CalledOnPair(f) == op = f /\ Len(arg_images) = 2

\* C5: for rasters of equal width and height, images_are_identical returns
\* true exactly when no position holds different pixels in the two rasters
\* (so true for (A, A), false for a single differing pixel wherever it is).
C5_IdentityIsExactEquality ==
    (CalledOnPair("identical") /\ SameDims(A1, A2)) =>
        /\ ~ret.panic
        /\ ret.identical = (DiffPositions(A1, A2) = {})
        /\ (A1 = A2 => ret.identical)
        /\ (Cardinality(DiffPositions(A1, A2)) = 1 => ~ret.identical)

\* C5 witness: two rasters that differ only in their last pixel were compared
C5_Witness ==
    /\ CalledOnPair("identical") /\ SameDims(A1, A2)
    /\ A1.width = 2 /\ A1.height >= 2
    /\ DiffPositions(A1, A2) = {<<A1.width - 1, A1.height - 1>>}
    /\ ~ret.identical

\* C6: for rasters whose widths or heights differ, both comparators return
\* the negative result, without a panic and without fetching any pixel;
\* images_are_similar returns (false, 100.0).
C6_MismatchedDimensionsNegative ==
    (Len(arg_images) = 2 /\ op \in {"identical", "similar"} /\ ~SameDims(A1, A2)) =>
        /\ ~ret.panic
        /\ ret.reads = 0
        /\ (op = "identical" => ~ret.identical)
        /\ (op = "similar" => ~ret.similar /\ ret.pct = Hundred)

\* C6 witness: images_are_similar was called on rasters of equal width and
\* different heights with an overlap below both heights
C6_Witness ==
    /\ CalledOnPair("similar")
    /\ A1.width = A2.width /\ A1.height # A2.height
    /\ arg_overlap < A1.height /\ arg_overlap < A2.height /\ arg_overlap > 0
    /\ ~ret.similar /\ ret.pct = Hundred

\* C7: for rasters of equal dimensions and overlap_height >= height (equal
\* included), images_are_similar returns (false, 100.0) and fetches no pixel.
C7_OverlapNotBelowHeight ==
    (CalledOnPair("similar") /\ SameDims(A1, A2) /\ arg_overlap >= A1.height) =>
        /\ ~ret.similar /\ ret.pct = Hundred /\ ret.reads = 0 /\ ~ret.panic

\* C7 witness: equal rasters compared with overlap_height exactly the height
C7_Witness ==
    /\ CalledOnPair("similar") /\ A1 = A2 /\ arg_overlap = A1.height
    /\ ~ret.similar

\* C8: for rasters of equal dimensions and 0 < h < height, with the
\* threshold fraction 0, images_are_similar returns similar = true exactly
\* when every pixel of the bottom h rows of A equals the pixel in the same
\* column of the matching row of the top h rows of B; nothing outside the
\* two bands enters the result.
BandsEqual(a, b, h) ==
    \A x \in 0 .. a.width - 1 : \A y \in 0 .. h - 1 :
        a.px[<<x, a.height - h + y>>] = b.px[<<x, y>>]

C8_ZeroThresholdIsBandEquality ==
    (CalledOnPair("similar") /\ SameDims(A1, A2)
        /\ 0 < arg_overlap /\ arg_overlap < A1.height /\ ThresholdPercent = 0) =>
        /\ ~ret.panic
        /\ ret.similar = BandsEqual(A1, A2, arg_overlap)

\* C8 witness: a pair that is overlap-similar although the two rasters are
\* not identical
C8_Witness ==
    /\ CalledOnPair("similar") /\ SameDims(A1, A2)
    /\ 0 < arg_overlap /\ arg_overlap < A1.height
    /\ ret.similar
    /\ ~images_are_identical(A1, A2).identical

\* C9: the scan of images_are_similar stops at the first pixel, in row-major
\* order over the band, at which the mismatch count exceeds threshold =
\* floor(h * width * T), and then returns not similar with a count of
\* threshold + 1; a scan of the whole band returns similar with the number of
\* mismatches of the band, at most threshold.  Either way the percentage is
\* count / (h * width) * 100.
C9_EarlyExitAndPercentage ==
    (CalledOnPair("similar") /\ SameDims(A1, A2) /\ arg_overlap < A1.height) =>
        LET total == arg_overlap * A1.width
            threshold == Threshold(total)
            M == BandMismatches(A1, A2, arg_overlap)
        IN  /\ ~ret.panic
            /\ ret.pct = Frac(ret.diff_count * 100, total)
            /\ ret.similar =>
                  /\ ret.reads = total
                  /\ ret.diff_count = Cardinality(M)
                  /\ ret.diff_count <= threshold
            /\ ~ret.similar =>
                  /\ ret.diff_count = threshold + 1
                  /\ \E k \in M :
                        /\ Cardinality({j \in M : j <= k}) = threshold + 1
                        /\ ret.reads = k + 1

\* C9 witness: a band of two rows and two columns with two mismatches, the
\* first of them in the second row: the scan stopped there
C9_Witness ==
    /\ CalledOnPair("similar") /\ SameDims(A1, A2)
    /\ A1.width = 2 /\ arg_overlap = 2 /\ arg_overlap < A1.height
    /\ BandMismatches(A1, A2, arg_overlap) = {2, 3}
    /\ ~ret.similar /\ ret.reads = 3 /\ ret.pct = Frac(100, 4)

(***************************************************************************)
(* Properties of the stitcher (SpecStitch)                                 *)
(***************************************************************************)
EqualFrames(imgs) ==
    \A i \in 1 .. Len(imgs) : SameDims(imgs[i], imgs[1])

\* C10: for every N >= 1, frame height H and overlap O, stitching N frames
\* of height H (and one width) with overlap O yields a raster whose width is
\* the first frame's width and whose height is H + (N-1)(H-O).
C10_StitchedHeight ==
    (op = "stitch" /\ Len(arg_images) >= 1 /\ EqualFrames(arg_images)) =>
        /\ ret.kind = "image"
        /\ ret.image.width = arg_images[1].width
        /\ ret.image.height = arg_images[1].height
               + (Len(arg_images) - 1) * (arg_images[1].height - arg_overlap)

\* C11: stitching a list of exactly one frame returns a raster with the
\* width, height and pixels of that frame, for every overlap value, those
\* equal to or above the frame height included.
C11_SingleFrameUnchanged ==
    (op = "stitch" /\ Len(arg_images) = 1) =>
        /\ ret.kind = "image"
        /\ ret.image = arg_images[1]

Range(seq) == {seq[j] : j \in DOMAIN seq}

\* rows the seam rule lets N frames of height H write with overlap h
SeamWrites(N, H, h) ==
    {<<0, y, y>> : y \in 0 .. H - 1}
        \cup {<<i, y, i * (H - h) + y>> : i \in 1 .. N - 1, y \in (h \div 2) .. H - 1}

\* C12: for frames of one size, height H, and overlap h <= H, frame 0 is
\* written in full at offset 0 and each frame i >= 1 writes exactly its rows
\* [h div 2, H) to the output rows i * (H - h) + row, and none of its rows
\* [0, h div 2); when H - h >= h, the top h div 2 rows of the overlap band
\* between frames i - 1 and i hold the pixels of frame i - 1 in the final
\* image and the other rows of the band hold those of frame i.
C12_SeamRule ==
    (op = "stitch" /\ Len(arg_images) >= 1 /\ EqualFrames(arg_images)
        /\ arg_overlap <= arg_images[1].height) =>
        LET N == Len(arg_images)
            H == arg_images[1].height
            W == arg_images[1].width
            h == arg_overlap
        IN  /\ ret.kind = "image"
            /\ Range(ret.writes) = SeamWrites(N, H, h)
            /\ Len(ret.writes) = Cardinality(SeamWrites(N, H, h))
            /\ (H - h >= h) =>
                  \A i \in 1 .. N - 1 : \A b \in 0 .. h - 1 : \A x \in 0 .. W - 1 :
                      get_pixel(ret.image, x, i * (H - h) + b)
                          = IF b < h \div 2
                            THEN get_pixel(arg_images[i], x, H - h + b)
                            ELSE get_pixel(arg_images[i + 1], x, b)

\* C12 witness: three frames of height 4 stitched with overlap 2: each band
\* has one row of the earlier frame above one row of the later frame
C12_Witness ==
    /\ op = "stitch" /\ Len(arg_images) = 3 /\ EqualFrames(arg_images)
    /\ arg_images[1].height = 4 /\ arg_images[1].width = 2 /\ arg_overlap = 2
    /\ ret.kind = "image" /\ ret.image.height = 8
    /\ get_pixel(ret.image, 1, 2) = get_pixel(arg_images[1], 1, 2)
    /\ get_pixel(ret.image, 1, 3) = get_pixel(arg_images[2], 1, 1)
    /\ get_pixel(ret.image, 1, 4) = get_pixel(arg_images[2], 1, 2)

\* C13: stitching the empty frame list returns a 1 x 1 raster and raises no
\* error (no panic), for every overlap value and in both build profiles.
C13_EmptyListPlaceholder ==
    (op = "stitch" /\ Len(arg_images) = 0) =>
        /\ ret.kind = "image"
        /\ ret.image.width = 1 /\ ret.image.height = 1
        /\ ret.writes = <<>>

\* C13 witness: the empty list stitched with an overlap above every height,
\* debug profile
C13_Witness ==
    /\ op = "stitch" /\ Len(arg_images) = 0 /\ arg_overlap > 1
    /\ build = "debug" /\ ret.kind = "image"

\* the frames are the windows of one document, overlapping by the overlap
\* the stitcher is given
ScrolledDocument(doc) ==
    /\ op = "stitch" /\ Len(arg_images) >= 1
    /\ arg_overlap < arg_images[1].height
    /\ doc.width = arg_images[1].width
    /\ arg_images = WindowsOf(doc, Len(arg_images), arg_images[1].height,
                              arg_overlap)

\* C28: if frames 0..N-1 are the height-H windows of one tall raster D
\* taken at vertical offsets i * (H - h) with 0 <= h < H, then
\* stitch(frames, h) equals the first H + (N-1)(H-h) rows of D pixel for
\* pixel.
C28_SeamlessReconstruction ==
    \A kind \in DocumentKinds : \A w \in Widths :
        ScrolledDocument(Document(kind, w)) =>
            LET N == Len(arg_images)
                H == arg_images[1].height
            IN  /\ ret.kind = "image"
                /\ ret.image
                      = Window(Document(kind, w), 0, H + (N - 1) * (H - arg_overlap))

\* C28 witness: three windows of height 3 of the labelled document, one row
\* of overlap: the result is the first 7 rows of the document
C28_Witness ==
    /\ ScrolledDocument(Document("labelled", 2))
    /\ Len(arg_images) = 3 /\ arg_images[1].height = 3 /\ arg_overlap = 1
    /\ ret.kind = "image"
    /\ ret.image = Window(Document("labelled", 2), 0, 7)

\* C35: the stitcher of the library and the stitcher of the CLI binary
\* return the same raster for every frame list and overlap, including frame
\* lists whose overlap bands are not pixel-identical between neighbouring
\* frames.
C35_StitchersAgree ==
    op = "cli_stitch" =>
        LET lib == stitch_images(arg_images, arg_overlap, build)
        IN  /\ ret.kind = lib.kind
            /\ ret.kind = "image" => ret.image = lib.image

EqualHeights(imgs) ==
    \A i \in 1 .. Len(imgs) : imgs[i].height = imgs[1].height

\* every output row is written, all of its pixels hold a frame's pixel, and
\* every write lands inside the output
FullyWritten(result) ==
    /\ result.kind = "image"
    /\ {w[3] : w \in Range(result.writes)} = 0 .. result.image.height - 1
    /\ \A p \in DOMAIN result.image.px : result.image.px[p] # Blank

UnequalWidths(imgs) ==
    \E i \in 1 .. Len(imgs) : imgs[i].width # imgs[1].width

\* C40: when the frames given to the stitcher do not all have the width of
\* the first frame, stitching fails fast with a validation error before any
\* pixel is written, instead of producing a raster or crashing part-way
\* through.
C40_UnequalWidthsRejected ==
    (op = "stitch" /\ UnequalWidths(arg_images)) =>
        /\ ret.kind \notin {"image", "panic", "oversize"}
        /\ ret.kind = "Err"

(***************************************************************************)
(* Properties of the crop region, capture_screen and scroll_down           *)
(* (SpecCalls)                                                             *)
(***************************************************************************)
\* the values of the pieces that are numbers, in order
RECURSIVE NumericFields(_)
NumericFields(pieces) ==
    IF Len(pieces) = 0 THEN <<>>
    ELSE (IF IsSome(Meaning(Head(pieces))) THEN <<Unwrap(Meaning(Head(pieces)))>>
          ELSE <<>>) \o NumericFields(Tail(pieces))

PlainIntegers == IntegerPieces \cup Range(ExamplePieces)

\* C15: a string of exactly four integers separated by commas, colons or
\* spaces (mixed or not) parses to (x, y, width, height) when width and
\* height are positive, so the three spellings of 10 20 300 400 give one
\* rectangle; the result is None whenever the number of numeric fields is
\* not four or the width or height field is <= 0 ("10,20,0,400",
\* "10,20,300").
C15_RectangleParsing ==
    op = "parse" =>
        LET vals == NumericFields(arg.pieces)
        IN  /\ (Len(arg.pieces) = 4
                  /\ (\A k \in 1 .. 4 : arg.pieces[k] \in PlainIntegers)
                  /\ vals[3] > 0 /\ vals[4] > 0)
               => ret = Some(<<vals[1], vals[2], vals[3], vals[4]>>)
            /\ (Len(vals) # 4 \/ vals[3] <= 0 \/ vals[4] <= 0) => ret = None
            /\ arg.pieces = ExamplePieces => ret = Some(<<10, 20, 300, 400>>)
            /\ arg.pieces = [ExamplePieces EXCEPT ![3] = <<"0">>] => ret = None
            /\ arg.pieces = SubSeq(ExamplePieces, 1, 3) => ret = None

\* C15 witness: 10,20:300 400 with the three separators mixed
C15_Witness ==
    /\ op = "parse" /\ arg.pieces = ExamplePieces /\ arg.seps = <<",", ":", " ">>
    /\ ret = Some(<<10, 20, 300, 400>>)

\* C38: rectangle parsing ignores every token that is not an integer
\* instead of failing on it: a string parses to (x, y, w, h) exactly when
\* the tokens obtained by splitting on comma, colon and space that parse as
\* integers are exactly four, in that order, with w > 0 and h > 0, whatever
\* other non-numeric or empty tokens the string contains.
C38_NonIntegersIgnored ==
    op = "parse" =>
        LET vals == NumericFields(arg.pieces)
        IN  ret = IF Len(vals) = 4 /\ vals[3] > 0 /\ vals[4] > 0
                  THEN Some(<<vals[1], vals[2], vals[3], vals[4]>>)
                  ELSE None

\* C38 witness: five tokens with a word among them; the four numbers around
\* it make the rectangle
C38_Witness ==
    /\ op = "parse" /\ Len(arg.pieces) = 5
    /\ arg.pieces[2] = <<"x">> /\ arg.pieces[1] = <<"-", "5">>
    /\ arg.seps = <<",", ":", " ">>
    /\ ret = Some(<<0 - 5, 0, 10, 10>>)

\* what a crop string, or none, and the focused-window flag resolve to
RegionFor(crop, window_only, window) ==
    IF IsSome(crop) THEN RegionOf(Unwrap(crop))
    ELSE IF window_only /\ Answers(window) THEN Some(WindowRegion)
    ELSE None

GuiExplicit == <<format_i32(arg.config.crop_x), format_i32(arg.config.crop_y),
                 format_i32(arg.config.crop_width), format_i32(arg.config.crop_height)>>

\* a rectangle string wins over the focused window, the focused window
\* over the full screen: library, video path and command line
StringThenWindowThenScreen ==
    /\ op \in {"lib", "video"} =>
          ret = ROk(RegionFor(arg.crop, arg.window_only, arg.window))
    /\ (op = "cli" /\ ret.crop_value.kind = "Ok") =>
          ret.region = ROk(RegionFor(ret.crop_value.value, arg.window_only,
                                     arg.window))

\* C16 as stated: one precedence order in every entry point: an explicit
\* rectangle string wins over a named preset when both are supplied, a
\* selected preset wins over focused-window detection, and detection over
\* the full screen.
C16_ExplicitOverPreset ==
    /\ StringThenWindowThenScreen
    /\ (op = "cli" /\ IsSome(arg.crop)) => ret.crop_value = ROk(arg.crop)
    /\ (op = "cli" /\ ~IsSome(arg.crop) /\ arg.crop_preset = Some("small")
           /\ arg.presets_ok) => ret.crop_value = ROk(Some(StrB))
    /\ (op = "gui" /\ arg.config.crop_enabled) =>
          ret = Some(Join(GuiExplicit, <<",">>, 1))
    /\ (op = "gui" /\ ~arg.config.crop_enabled /\ arg.config.use_preset
           /\ arg.config.selected_preset = "small" /\ arg.presets_ok) =>
          ret = Some(StrB)

\* C16 amended: a named preset wins over an explicit rectangle in the
\* command line and in the GUI: with a preset named, the crop string is the
\* preset's (command line: an unknown preset or an unreadable preset file is
\* an error; GUI: they give no crop string) and the explicit rectangle is
\* used only when no preset is named; a crop string wins over focused-window
\* detection and detection over the full screen.
C16_PresetOverExplicit ==
    /\ StringThenWindowThenScreen
    /\ (op = "cli" /\ IsSome(arg.crop_preset)) =>
          ret.crop_value =
              IF arg.presets_ok /\ Unwrap(arg.crop_preset) \in {"small", "broken"}
              THEN ROk(Some(IF Unwrap(arg.crop_preset) = "small" THEN StrB
                            ELSE StrShort))
              ELSE IF arg.presets_ok THEN RErr("Preset not found")
              ELSE RErr("load_presets")
    /\ (op = "cli" /\ ~IsSome(arg.crop_preset)) => ret.crop_value = ROk(arg.crop)
    /\ (op = "gui" /\ arg.config.use_preset /\ arg.config.selected_preset # "") =>
          ret = IF arg.presets_ok /\ arg.config.selected_preset = "small"
                THEN Some(StrB) ELSE None
    /\ (op = "gui" /\ ~(arg.config.use_preset /\ arg.config.selected_preset # "")) =>
          ret = IF arg.config.crop_enabled THEN Some(Join(GuiExplicit, <<",">>, 1))
                ELSE None

\* C16 witness: the command line was given --crop and --crop-preset and
\* focused-window mode, and the preset's rectangle was used
C16_Witness ==
    /\ op = "cli" /\ arg.crop = Some(StrA) /\ arg.crop_preset = Some("small")
    /\ arg.window_only /\ Answers(arg.window)
    /\ ret.region = ROk(Some(<<1, 0, 1, 1>>))

\* C17: the crop resolution of a capture run (screenshot loop and video
\* path) never returns an error: a crop string that does not parse gives no
\* crop, also with focused-window mode on, and a focused-window query
\* without an answer gives no crop; the run goes on to its capture.
C17_ResolutionNeverFails ==
    op \in {"lib", "video"} =>
        /\ ret.kind = "Ok"
        /\ (IsSome(arg.crop) /\ Unwrap(arg.crop) \in {StrShort, StrZero}) =>
              ret = ROk(None)
        /\ (~IsSome(arg.crop) /\ arg.window_only /\ ~Answers(arg.window)) =>
              ret = ROk(None)

\* C17 witness: a three-field crop string with focused-window mode on and a
\* window manager that answers
C17_Witness ==
    /\ op = "lib" /\ arg.crop = Some(StrShort) /\ arg.window_only
    /\ Answers(arg.window) /\ ret = ROk(None)

\* the sub-rectangle (x, y, w, h) of a raster
SubRaster(img, x, y, w, h) ==
    [width |-> w, height |-> h,
     px |-> [p \in (0 .. w - 1) \X (0 .. h - 1) |-> img.px[<<x + p[1], y + p[2]>>]]]

\* C18: on a W x H display capture_screen returns exactly the sub-rectangle
\* (x, y, w, h) when the region lies inside the raster (0 <= x, 0 <= y,
\* x + w <= W, y + h <= H) and the whole raster, without error, in every
\* other case, a negative x or y included.
C18_CropOrFullRaster ==
    (op = "capture" /\ arg.screen.kind = "image") =>
        LET img == arg.screen.image
        IN  IF IsSome(arg.region)
            THEN LET x == Unwrap(arg.region)[1]
                     y == Unwrap(arg.region)[2]
                     w == Unwrap(arg.region)[3]
                     h == Unwrap(arg.region)[4]
                 IN  IF x >= 0 /\ y >= 0 /\ w >= 0 /\ h >= 0
                        /\ x + w <= img.width /\ y + h <= img.height
                     THEN ret = ROk(SubRaster(img, x, y, w, h))
                     ELSE ret = ROk(img)
            ELSE ret = ROk(img)

\* C19: a call of scroll_down that returns Ok has injected exactly one key
\* event, DownArrow for "down", PageDown for "pagedown" (in any letter case)
\* and Space for every other symbol, and has waited the settle time before
\* returning; no call injects more than one event.
C19_OneKeyEvent ==
    op = "scroll" =>
        /\ Len(ret.events) <= 1
        /\ ret.result.kind = "Ok" =>
              /\ ret.slept
              /\ ret.events = <<CASE arg.key.symbol = "down" -> "DownArrow"
                                  [] arg.key.symbol = "pagedown" -> "PageDown"
                                  [] OTHER -> "Space">>
        /\ ret.result.kind = "Err" => (ret.events = <<>> /\ arg.enigo # "ok")

\* C19 witness: PageDown typed in mixed case
C19_Witness ==
    /\ op = "scroll" /\ arg.key.text = <<"P", "a", "g", "e", "D", "o", "w", "n">>
    /\ arg.enigo = "ok" /\ ret.events = <<"PageDown">> /\ ret.slept

====
